---- MODULE Spec2Model ----
(***************************************************************************)
(* Real-time event aggregation of gastown-dispatch: the TelemetryStreamer  *)
(* (backend/src/services/telemetry.ts) with its subscriber map, poll       *)
(* timer, in-flight polls, snapshot builder, differ, alert evaluator and   *)
(* broadcast loop. Each action is one handler of the Node event loop, run  *)
(* to completion: a request attaching or detaching a subscriber, the       *)
(* interval callback, and the continuation of poll() after its await.      *)
(***************************************************************************)
EXTENDS Integers, Sequences, FiniteSets, TLC

\* ------------------------------------------------------------------------
\* Bounds of the model
\* ------------------------------------------------------------------------
\* number of poll() calls explored
MaxTicks == 2
\* number of clock advances explored
MaxAdvances == 1
\* number of poll() calls and of clock advances explored by the alert
\* cooldown specification
MaxCooldownTicks == 3
MaxElapses == 2
\* number of poll() calls explored by the alert rule specification
MaxRuleTicks == 1
\* number of poll() calls explored by the differ specification
MaxDiffTicks == 2
\* number of "gt logs" subprocesses spawned
MaxProcs == 3
\* number of log entries read from the subprocesses
MaxLogEntries == 2

\* ------------------------------------------------------------------------
\* Program constants
\* ------------------------------------------------------------------------
POLL_INTERVAL == 5000
\* LogStreamer.maxBufferSize
maxBufferSize == 100
ALERT_COOLDOWN == 60000
MQ_BACKLOG_LIMIT == 50
WORK_BACKLOG_LIMIT == 100

\* Date.now() when the server starts: a wall clock, far later than one
\* cooldown after the epoch.
ClockStart == 10 * ALERT_COOLDOWN

\* null / undefined
Null == [null |-> TRUE]

Clients == {"c1", "c2"}

\* ------------------------------------------------------------------------
\* Values returned by the snapshot source (TownStatus)
\* ------------------------------------------------------------------------
Agent(n, r, w, s, b, t) ==
    [name |-> n, running |-> r, has_work |-> w, state |-> s,
     hook_bead |-> b, work_title |-> t]

Mq(p, f, s, h) == [pending |-> p, in_flight |-> f, state |-> s, health |-> h]

Rig(n, mq) == [name |-> n, mq |-> mq]

StatusQuiet ==
    [agents |-> << Agent("a1", TRUE, FALSE, "idle", "", "") >>,
     rigs   |-> << Rig("r1", Mq(0, 0, "idle", "healthy")) >>]

StatusStuck ==
    [agents |-> << Agent("a1", TRUE, TRUE, "stuck", "bd-42", "Fix login") >>,
     rigs   |-> << Rig("r1", Mq(0, 0, "idle", "healthy")) >>]

Statuses == {StatusQuiet, StatusStuck}

\* what one poll's Promise.all settles with: the primary fetch rejects
\* ("fail") or resolves with {initialized, status}; each sub-fetch rejects
\* ("fail") or resolves with a list of the given length
Fail == [fail |-> TRUE]

PrimaryResults ==
    {Fail, [initialized |-> FALSE, status |-> Null]}
    \cup {[initialized |-> TRUE, status |-> s] : s \in Statuses}

SubResults == {Fail, [length |-> 1]}

FetchResults ==
    [primary : PrimaryResults, ready : SubResults, blocked : SubResults]

\* ------------------------------------------------------------------------
\* Array helpers
\* ------------------------------------------------------------------------
RECURSIVE FindFrom(_, _, _)
FindFrom(seq, i, key) ==
    IF i > Len(seq) THEN 0
    ELSE IF seq[i].name = key THEN i
    ELSE FindFrom(seq, i + 1, key)

\* Array.prototype.find by name: index of the first match, 0 when none
FindByName(seq, key) == FindFrom(seq, 1, key)

RECURSIVE SumFrom(_, _)
SumFrom(nums, i) ==
    IF i > Len(nums) THEN 0 ELSE nums[i] + SumFrom(nums, i + 1)

\* ------------------------------------------------------------------------
\* buildSnapshot
\* ------------------------------------------------------------------------
mapAgentTelemetry(a) ==
    [name |-> a.name, running |-> a.running, has_work |-> a.has_work,
     work_id |-> a.hook_bead, work_title |-> a.work_title, state |-> a.state]

mapRigTelemetry(r) ==
    [name |-> r.name,
     mq_pending   |-> IF r.mq = Null THEN 0 ELSE r.mq.pending,
     mq_in_flight |-> IF r.mq = Null THEN 0 ELSE r.mq.in_flight,
     mq_state     |-> IF r.mq = Null THEN "idle" ELSE r.mq.state,
     mq_health    |-> IF r.mq = Null THEN "healthy" ELSE r.mq.health]

RigDegraded(r) ==
    r.mq # Null /\ (r.mq.health = "stale" \/ r.mq.state = "blocked")

\* the field tick is not a field of the program's snapshot: it names the
\* poll() call that built the snapshot (the program's timestamp field, the
\* time of the build, is left out)
buildSnapshot(status, initialized, readyCount, blockedCount, tick) ==
    LET agents == IF status = Null THEN << >> ELSE status.agents
        rigs == IF status = Null THEN << >> ELSE status.rigs
        runningAgents == SelectSeq(agents, LAMBDA a : a.running)
        idleAgents == SelectSeq(runningAgents, LAMBDA a : ~a.has_work)
        withWork == SelectSeq(agents, LAMBDA a : a.has_work)
        stuckAgents == SelectSeq(agents, LAMBDA a : a.state = "stuck")
        totalPending ==
            SumFrom([i \in 1..Len(rigs) |->
                       IF rigs[i].mq = Null THEN 0 ELSE rigs[i].mq.pending], 1)
        totalInFlight ==
            SumFrom([i \in 1..Len(rigs) |->
                       IF rigs[i].mq = Null THEN 0 ELSE rigs[i].mq.in_flight], 1)
        healthyRigs ==
            Len(SelectSeq(rigs, LAMBDA r : r.mq = Null \/ r.mq.health = "healthy"))
        degradedRigs == Len(SelectSeq(rigs, RigDegraded))
        systemStatus ==
            IF ~initialized THEN "offline"
            ELSE IF degradedRigs > 0 \/ Len(stuckAgents) > 0 THEN "degraded"
            ELSE "healthy"
    IN [type |-> "snapshot",
        tick |-> tick,
        agents |-> [total |-> Len(agents), running |-> Len(runningAgents),
                    idle |-> Len(idleAgents), with_work |-> Len(withWork),
                    stuck |-> Len(stuckAgents),
                    items |-> [i \in 1..Len(agents) |->
                                 mapAgentTelemetry(agents[i])]],
        rigs |-> [total |-> Len(rigs), healthy |-> healthyRigs,
                  degraded |-> degradedRigs,
                  items |-> [i \in 1..Len(rigs) |-> mapRigTelemetry(rigs[i])]],
        work |-> [ready |-> readyCount, blocked |-> blockedCount,
                  in_progress |-> Len(withWork)],
        system |-> [status |-> systemStatus,
                    message_queue |-> [pending |-> totalPending,
                                       in_flight |-> totalInFlight]]]

\* ------------------------------------------------------------------------
\* detectChanges: the change events of one diff, in emission order
\* ------------------------------------------------------------------------
Event(category, event_type, data) ==
    [type |-> "event", category |-> category, event_type |-> event_type,
     data |-> data]

\* the agent branch emitting an event for every comparison that matches,
\* not only for the first
AgentChangeAllMatches(prev, agent) ==
    LET i == FindByName(prev.agents, agent.name)
        prevAgent == prev.agents[i]
    IN IF i = 0
       THEN << Event("agent", "joined", [agent |-> agent.name]) >>
       ELSE (IF prevAgent.running # agent.running
             THEN << Event("agent",
                           IF agent.running THEN "started" ELSE "stopped",
                           [agent |-> agent.name]) >>
             ELSE << >>)
            \o (IF ~prevAgent.has_work /\ agent.has_work
                THEN << Event("work", "started",
                              [agent |-> agent.name,
                               bead_id |-> agent.hook_bead,
                               title |-> agent.work_title]) >>
                ELSE << >>)
            \o (IF prevAgent.has_work /\ ~agent.has_work
                THEN << Event("work", "completed",
                              [agent |-> agent.name,
                               bead_id |-> prevAgent.hook_bead]) >>
                ELSE << >>)
            \o (IF prevAgent.state # agent.state /\ agent.state # ""
                THEN << Event("agent", "state_changed",
                              [agent |-> agent.name,
                               old_state |-> prevAgent.state,
                               new_state |-> agent.state]) >>
                ELSE << >>)

\* the agent branch without the comparison of the running flags
AgentChangeIgnoresRunning(prev, agent) ==
    LET i == FindByName(prev.agents, agent.name)
        prevAgent == prev.agents[i]
    IN IF i = 0
       THEN << Event("agent", "joined", [agent |-> agent.name]) >>
       ELSE IF ~prevAgent.has_work /\ agent.has_work
       THEN << Event("work", "started",
                     [agent |-> agent.name, bead_id |-> agent.hook_bead,
                      title |-> agent.work_title]) >>
       ELSE IF prevAgent.has_work /\ ~agent.has_work
       THEN << Event("work", "completed",
                     [agent |-> agent.name, bead_id |-> prevAgent.hook_bead]) >>
       ELSE IF prevAgent.state # agent.state /\ agent.state # ""
       THEN << Event("agent", "state_changed",
                     [agent |-> agent.name, old_state |-> prevAgent.state,
                      new_state |-> agent.state]) >>
       ELSE << >>

AgentChange(prev, agent) ==
    LET i == FindByName(prev.agents, agent.name)
        prevAgent == prev.agents[i]
    IN IF i = 0
       THEN << Event("agent", "joined", [agent |-> agent.name]) >>
       ELSE IF prevAgent.running # agent.running
       THEN << Event("agent", IF agent.running THEN "started" ELSE "stopped",
                     [agent |-> agent.name]) >>
       ELSE IF ~prevAgent.has_work /\ agent.has_work
       THEN << Event("work", "started",
                     [agent |-> agent.name, bead_id |-> agent.hook_bead,
                      title |-> agent.work_title]) >>
       ELSE IF prevAgent.has_work /\ ~agent.has_work
       THEN << Event("work", "completed",
                     [agent |-> agent.name, bead_id |-> prevAgent.hook_bead]) >>
       ELSE IF prevAgent.state # agent.state /\ agent.state # ""
       THEN << Event("agent", "state_changed",
                     [agent |-> agent.name, old_state |-> prevAgent.state,
                      new_state |-> agent.state]) >>
       ELSE << >>

\* the "agents that left" loop emitting nothing
AgentLeftNever(curr, prevAgent) == << >>

AgentLeft(curr, prevAgent) ==
    IF FindByName(curr.agents, prevAgent.name) = 0
    THEN << Event("agent", "left", [agent |-> prevAgent.name]) >>
    ELSE << >>

MqState(r) == IF r.mq = Null THEN Null ELSE [state |-> r.mq.state]

\* the rig branch reporting a blocked queue whatever its state was before
RigChangeLevelTriggered(prev, rig) ==
    LET i == FindByName(prev.rigs, rig.name)
    IN IF i = 0
       THEN << Event("rig", "added", [rig |-> rig.name]) >>
       ELSE IF MqState(rig) = [state |-> "blocked"]
       THEN << Event("rig", "blocked", [rig |-> rig.name]) >>
       ELSE << >>

RigChange(prev, rig) ==
    LET i == FindByName(prev.rigs, rig.name)
        prevRig == prev.rigs[i]
    IN IF i = 0
       THEN << Event("rig", "added", [rig |-> rig.name]) >>
       ELSE IF MqState(prevRig) # MqState(rig)
               /\ MqState(rig) = [state |-> "blocked"]
       THEN << Event("rig", "blocked", [rig |-> rig.name]) >>
       ELSE << >>

RECURSIVE FlattenFrom(_, _)
FlattenFrom(seqs, i) ==
    IF i > Len(seqs) THEN << >> ELSE seqs[i] \o FlattenFrom(seqs, i + 1)

detectChanges(prev, curr) ==
    FlattenFrom([i \in 1..Len(curr.agents) |->
                   AgentChange(prev, curr.agents[i])], 1)
    \o FlattenFrom([i \in 1..Len(prev.agents) |->
                      AgentLeft(curr, prev.agents[i])], 1)
    \o FlattenFrom([i \in 1..Len(curr.rigs) |->
                      RigChange(prev, curr.rigs[i])], 1)

\* ------------------------------------------------------------------------
\* State of the TelemetryStreamer singleton and of its environment
\* ------------------------------------------------------------------------
VARIABLES
    clients,        \* Map<string, StreamClient>: the ids, in insertion order
    pollInterval,   \* TRUE iff this.pollInterval holds a timer handle
    activeTimers,   \* number of setInterval timers that are not cleared
    due,            \* time at which the interval timer fires next (0: none)
    lastSnapshot,   \* this.lastSnapshot
    previousStatus, \* this.previousStatus
    alertState,     \* this.alertState: alert code -> time of the last emit
    inflight,       \* poll() calls suspended at their await
    nextTick,       \* number of the next poll() call
    firstTicks,     \* the poll() calls made by startPolling (initial polls)
    now,            \* Date.now()
    throwers,       \* ids of the clients whose send function throws
    hooks,          \* per client id: what its send function does to the
                    \* streamer the next time it is called
    seen,           \* per client id: the poll whose message it was sent last
    calls,          \* the broadcast calls made by the last handler
    out,            \* the client.send calls made by the last handler
    last,           \* the last handler run, with its input
    emits,          \* per alert code, and for "outage" (a system_offline
                    \* alert or a system error event): the times at which
                    \* it was broadcast
    streak,         \* the codes whose condition has held on every settled
                    \* tick since their last broadcast
    diffPrev        \* this.previousStatus when the last tick settled

\* State of the LogStreamer singleton and of its subprocesses
VARIABLES
    logClients,     \* LogStreamer.clients: the ids, in insertion order
    logProcess,     \* LogStreamer.process: a subprocess number, 0 for null
    procs,          \* the subprocesses spawned and not closed yet, each
                    \* "running" or "killed" (kill() was called on it)
    nextProc,       \* number of the next subprocess spawned
    buffer,         \* LogStreamer.buffer
    nextEntry,      \* number of the next log entry read
    logOut,         \* the client.send calls made by the last handler
    logLast         \* the last LogStreamer handler run

\* State of one useUnifiedEventFeed hook: the merged list
VARIABLES
    feedEvents,     \* the events state: the list shown, newest insert first
    maxEvents,      \* options.maxEvents
    feedNow,        \* the browser's clock (ms)
    accepted,       \* the events that were not dropped as duplicates since
                    \* the list was last empty by construction or
                    \* clearEvents, oldest first
    feedLast        \* the last listener run, with its addEvent calls

\* State of one useUnifiedEventFeed hook: its connections
VARIABLES
    hook,               \* "rendered" before the mount effect has run, then
                        \* "mounted" ("idle" when not enabled), then "torn"
    hookEnabled,        \* options.enabled
    sourceRef,          \* dashboardSourceRef / convoysSourceRef: the number
                        \* of an EventSource, 0 for null
    eventSources,       \* the EventSource objects created, by number
    connectedFlags,     \* dashboardConnected / convoysConnected
    reconnectTimeouts,  \* reconnectTimeoutsRef: a timer id, 0 for null
    timers,             \* the setTimeout timers that are pending
    nextSource,         \* number of the next EventSource
    nextTimer,          \* id of the next timer
    connNow,            \* the browser's clock (ms)
    connLast            \* the last handler run

\* State of one runCommand call
VARIABLES
    runPromise,     \* the promise returned: pending, resolved or rejected,
                    \* with its value
    runProc,        \* the subprocess: "spawning" (the spawn fails),
                    \* "failed", "running" or "closed"
    runTraps,       \* the subprocess handles SIGTERM and goes on
    runSignalled,   \* proc.kill("SIGTERM") was delivered
    runTimer,       \* the timeout timer is pending
    runTimeout,     \* options.timeout
    runNow,         \* time since the call (ms)
    runStdout,      \* stdout
    runStderr,      \* stderr
    runSettledAt,   \* when the promise was settled, -1 while pending
    runLast         \* the last callback run

\* State of the status service module
VARIABLES
    statusCache,        \* statusCache: Null or { data, timestamp }
    cachePending,       \* the getTownStatus calls awaiting runGtJson, by
                        \* number, each with its now
    nextCall,           \* number of the next getTownStatus call
    cacheNow,           \* Date.now()
    cacheStoredAt,      \* when statusCache was last assigned an entry
    cacheInvalidated,   \* invalidateStatusCache was called and
                        \* getTownStatus was not called since
    cacheLast           \* the last step of the module

\* One AlarmPanel component
VARIABLES
    panelAgents,    \* props.agents
    panelRigs,      \* props.rigs
    panelOut        \* what the last render derived, Null before it

telemetryVars == << clients, pollInterval, activeTimers, due, lastSnapshot,
                    previousStatus, alertState, inflight, nextTick,
                    firstTicks, now, throwers, hooks, seen, calls, out, last,
                    emits, streak, diffPrev >>

logVars == << logClients, logProcess, procs, nextProc, buffer, nextEntry,
              logOut, logLast >>

feedVars == << feedEvents, maxEvents, feedNow, accepted, feedLast >>

\* the variables of the parts other than the two server streamers
connVars == << hook, hookEnabled, sourceRef, eventSources, connectedFlags,
               reconnectTimeouts, timers, nextSource, nextTimer, connNow,
               connLast >>

runVars == << runPromise, runProc, runTraps, runSignalled, runTimer,
              runTimeout, runNow, runStdout, runStderr, runSettledAt,
              runLast >>

cacheVars == << statusCache, cachePending, nextCall, cacheNow,
                cacheStoredAt, cacheInvalidated, cacheLast >>

panelVars == << panelAgents, panelRigs, panelOut >>

laterVars == << feedVars, connVars, runVars, cacheVars, panelVars >>

vars == << clients, pollInterval, activeTimers, due, lastSnapshot,
           previousStatus, alertState, inflight, nextTick, firstTicks, now,
           throwers, hooks, seen, calls, out, last, emits, streak, diffPrev,
           logClients, logProcess, procs, nextProc, buffer, nextEntry,
           logOut, logLast,
           feedEvents, maxEvents, feedNow, accepted, feedLast,
           hook, hookEnabled, sourceRef, eventSources, connectedFlags,
           reconnectTimeouts, timers, nextSource, nextTimer, connNow,
           connLast,
           runPromise, runProc, runTraps, runSignalled, runTimer, runTimeout,
           runNow, runStdout, runStderr, runSettledAt, runLast,
           statusCache, cachePending, nextCall, cacheNow, cacheStoredAt,
           cacheInvalidated, cacheLast,
           panelAgents, panelRigs, panelOut >>

Range(seq) == {seq[i] : i \in 1..Len(seq)}

EmptyMap == [c \in {} |-> 0]

MapPut(m, k, v) == [x \in DOMAIN m \cup {k} |-> IF x = k THEN v ELSE m[x]]

MapDelete(m, k) == [x \in DOMAIN m \ {k} |-> m[x]]

\* The client map is its list of entries: Map.prototype.delete empties the
\* entry of the key where it stands (Tomb), so that an iteration in progress
\* keeps its position; the emptied entries are dropped when the handler ends
Tomb == ""

Live(seq) == Range(seq) \ {Tomb}

\* Map.prototype.size
ClientsSize(seq) == Cardinality(Live(seq))

\* Map.prototype.set: a new key goes last, an existing key keeps its place
ClientsSet(seq, id) == IF id \in Range(seq) THEN seq ELSE Append(seq, id)

\* Map.prototype.delete
ClientsDelete(seq, id) ==
    [i \in 1..Len(seq) |-> IF seq[i] = id THEN Tomb ELSE seq[i]]

Compact(seq) == SelectSeq(seq, LAMBDA x : x # Tomb)

\* what a send function does besides delivering
NoHook == [op |-> "none"]

HookValues ==
    {NoHook} \cup [op : {"addClient", "removeClient"}, id : Clients]

\* The object's fields as one record S, threaded through the methods below;
\* S.threw: an exception is propagating; S.cur: the poll being handled
Cur ==
    [clients |-> clients, pollInterval |-> pollInterval,
     activeTimers |-> activeTimers, due |-> due,
     lastSnapshot |-> lastSnapshot, previousStatus |-> previousStatus,
     alertState |-> alertState, inflight |-> inflight, nextTick |-> nextTick,
     firstTicks |-> firstTicks, hooks |-> hooks, calls |-> << >>,
     out |-> << >>, threw |-> FALSE, cur |-> 0]

\* the synchronous part of poll(): the three fetches are issued and the
\* call suspends at its await
poll(S) ==
    [S EXCEPT !.inflight = @ \cup {S.nextTick}, !.nextTick = @ + 1]

startPolling(S) ==
    IF S.pollInterval THEN S
    ELSE LET S1 == poll(S)
         IN [S1 EXCEPT !.pollInterval = TRUE,
                       !.activeTimers = @ + 1,
                       !.due = now + POLL_INTERVAL,
                       !.firstTicks = @ \cup {S.nextTick}]

stopPolling(S) ==
    LET S1 == IF S.pollInterval
              THEN [S EXCEPT !.pollInterval = FALSE,
                             !.activeTimers = @ - 1,
                             !.due = 0]
              ELSE S
    IN [S1 EXCEPT !.previousStatus = Null, !.alertState = EmptyMap]

\* removeClient without its "stop polling when no clients" branch
removeClientKeepsPolling(S, id) ==
    [S EXCEPT !.clients = ClientsDelete(@, id)]

removeClient(S, id) ==
    LET S1 == [S EXCEPT !.clients = ClientsDelete(@, id)]
    IN IF ClientsSize(S1.clients) = 0 THEN stopPolling(S1) ELSE S1

\* addClient without its "send initial snapshot if available" branch
addClientNoSnapshot(S, id) ==
    LET S1 == [S EXCEPT !.clients = ClientsSet(@, id)]
    IN IF ClientsSize(S1.clients) = 1 THEN startPolling(S1) ELSE S1

RECURSIVE Send(_, _, _, _), addClient(_, _)

\* client.send(event, data), called by broadcast call number k of the
\* handler (k = 0: called by addClient). The call is recorded; then the
\* function throws, or returns after calling back into the streamer
Send(S, id, msg, k) ==
    LET S1 == [S EXCEPT !.out = Append(@, [to |-> id, tick |-> S.cur,
                                           call |-> k, msg |-> msg])]
        h == S.hooks[id]
        S2 == [S1 EXCEPT !.hooks[id] = NoHook]
    IN IF id \in throwers THEN [S1 EXCEPT !.threw = TRUE]
       ELSE IF h.op = "addClient" THEN addClient(S2, h.id)
       ELSE IF h.op = "removeClient" THEN removeClient(S2, h.id)
       ELSE S1

addClient(S, id) ==
    LET S1 == [S EXCEPT !.clients = ClientsSet(@, id)]
        S2 == IF S1.lastSnapshot # Null
              THEN [Send([S1 EXCEPT !.cur = S1.lastSnapshot.tick], id,
                         S1.lastSnapshot, 0) EXCEPT !.cur = S.cur]
              ELSE S1
    IN IF S2.threw THEN S2
       ELSE IF ClientsSize(S2.clients) = 1 THEN startPolling(S2)
       ELSE S2

RECURSIVE BroadcastFrom(_, _, _, _)
BroadcastFrom(S, i, msg, k) ==
    IF i > Len(S.clients) THEN S
    ELSE IF S.clients[i] = Tomb THEN BroadcastFrom(S, i + 1, msg, k)
    ELSE LET S1 == Send(S, S.clients[i], msg, k)
         IN IF S1.threw THEN S1 ELSE BroadcastFrom(S1, i + 1, msg, k)

\* for (const client of this.clients.values()) client.send(event, data)
\* (S.calls records the call and the ids registered when it starts)
broadcast(S, msg) ==
    LET S0 == [S EXCEPT !.calls = Append(@, [msg |-> msg,
                                             registered |-> Live(S.clients)])]
    IN BroadcastFrom(S0, 1, msg, Len(S0.calls))

emitEvent(S, category, event_type, data) ==
    broadcast(S, Event(category, event_type, data))

Alert(severity, category, code) ==
    [type |-> "alert", severity |-> severity, category |-> category,
     code |-> code]

emitAlert(S, severity, category, code) ==
    broadcast(S, Alert(severity, category, code))

\* ------------------------------------------------------------------------
\* checkAlerts
\* ------------------------------------------------------------------------
AlertRules ==
    << [code |-> "system_offline", severity |-> "critical", category |-> "system"],
       [code |-> "agents_stuck",   severity |-> "warning",  category |-> "agent"],
       [code |-> "mq_backlog",     severity |-> "warning",  category |-> "system"],
       [code |-> "rigs_degraded",  severity |-> "warning",  category |-> "rig"],
       [code |-> "work_backlog",   severity |-> "warning",  category |-> "work"],
       [code |-> "no_agents",      severity |-> "critical", category |-> "agent"] >>

\* the rule conditions with the queue threshold reached at 50, not above
AlertConditionInclusive(code, snapshot) ==
    CASE code = "system_offline" -> snapshot.system.status = "offline"
      [] code = "agents_stuck"   -> snapshot.agents.stuck > 0
      [] code = "mq_backlog"     ->
             snapshot.system.message_queue.pending >= MQ_BACKLOG_LIMIT
      [] code = "rigs_degraded"  -> snapshot.rigs.degraded > 0
      [] code = "work_backlog"   -> snapshot.work.ready > WORK_BACKLOG_LIMIT
      [] code = "no_agents"      ->
             snapshot.agents.running = 0 /\ snapshot.work.ready > 0

\* the condition of the if statement that guards the rule's maybeAlert
AlertCondition(code, snapshot) ==
    CASE code = "system_offline" -> snapshot.system.status = "offline"
      [] code = "agents_stuck"   -> snapshot.agents.stuck > 0
      [] code = "mq_backlog"     ->
             snapshot.system.message_queue.pending > MQ_BACKLOG_LIMIT
      [] code = "rigs_degraded"  -> snapshot.rigs.degraded > 0
      [] code = "work_backlog"   -> snapshot.work.ready > WORK_BACKLOG_LIMIT
      [] code = "no_agents"      ->
             snapshot.agents.running = 0 /\ snapshot.work.ready > 0

\* the condition of the if statement that guards the rule's alertState.delete
ClearCondition(code, snapshot) ==
    CASE code = "system_offline" -> snapshot.system.status # "offline"
      [] code = "agents_stuck"   -> snapshot.agents.stuck = 0
      [] code = "mq_backlog"     ->
             snapshot.system.message_queue.pending <= MQ_BACKLOG_LIMIT
      [] code = "rigs_degraded"  -> snapshot.rigs.degraded = 0
      [] code = "work_backlog"   -> snapshot.work.ready <= WORK_BACKLOG_LIMIT
      [] code = "no_agents"      ->
             snapshot.agents.running > 0 \/ snapshot.work.ready = 0

\* maybeAlert with the cooldown over once 60 s have passed, not more than
\* 60 s
maybeAlertInclusive(S, rule) ==
    LET lastEmit == IF rule.code \in DOMAIN S.alertState
                    THEN S.alertState[rule.code] ELSE 0
    IN IF now - lastEmit >= ALERT_COOLDOWN
       THEN LET S1 == emitAlert(S, rule.severity, rule.category, rule.code)
            IN IF S1.threw THEN S1
               ELSE [S1 EXCEPT !.alertState = MapPut(@, rule.code, now)]
       ELSE S

maybeAlert(S, rule) ==
    LET lastEmit == IF rule.code \in DOMAIN S.alertState
                    THEN S.alertState[rule.code] ELSE 0
    IN IF now - lastEmit > ALERT_COOLDOWN
       THEN LET S1 == emitAlert(S, rule.severity, rule.category, rule.code)
            IN IF S1.threw THEN S1
               ELSE [S1 EXCEPT !.alertState = MapPut(@, rule.code, now)]
       ELSE S

RECURSIVE AlertsFrom(_, _, _)
AlertsFrom(S, i, snapshot) ==
    IF i > Len(AlertRules) \/ S.threw THEN S
    ELSE AlertsFrom(IF AlertCondition(AlertRules[i].code, snapshot)
                    THEN maybeAlert(S, AlertRules[i]) ELSE S,
                    i + 1, snapshot)

\* the clear pass deleting nothing
ClearFromKeepsEntries(m, i, snapshot) == m

RECURSIVE ClearFrom(_, _, _)
ClearFrom(m, i, snapshot) ==
    IF i > Len(AlertRules) THEN m
    ELSE ClearFrom(IF ClearCondition(AlertRules[i].code, snapshot)
                   THEN MapDelete(m, AlertRules[i].code) ELSE m,
                   i + 1, snapshot)

checkAlerts(S, snapshot) ==
    LET S1 == AlertsFrom(S, 1, snapshot)
    IN IF S1.threw THEN S1
       ELSE [S1 EXCEPT !.alertState = ClearFrom(@, 1, snapshot)]

AlertCodes == {AlertRules[i].code : i \in 1..Len(AlertRules)}

\* what the record of broadcasts is kept for: the alert codes, and "outage"
\* for the messages that report the system as unreachable
Tracked == AlertCodes \cup {"outage"}

\* ------------------------------------------------------------------------
\* poll(), from the point where its await Promise.all(...) settles
\* ------------------------------------------------------------------------
RECURSIVE EmitAllFrom(_, _, _)
EmitAllFrom(S, i, events) ==
    IF i > Len(events) \/ S.threw THEN S
    ELSE EmitAllFrom(broadcast(S, events[i]), i + 1, events)

\* .catch(() => []) of a sub-fetch, then .length
SubCount(r) == IF r = Fail THEN 0 ELSE r.length

\* the try block with the alert check made only when a previous status
\* exists, like the diff
pollTryAlertsNeedPrevious(S, res) ==
    LET status == res.primary.status
        snapshot == buildSnapshot(status, res.primary.initialized,
                                  SubCount(res.ready), SubCount(res.blocked),
                                  S.cur)
        S1 == [S EXCEPT !.lastSnapshot = snapshot]
        S2 == broadcast(S1, snapshot)
        S3 == IF status # Null /\ S2.previousStatus # Null
              THEN EmitAllFrom(S2, 1, detectChanges(S2.previousStatus, status))
              ELSE S2
        S4 == IF S2.previousStatus # Null THEN checkAlerts(S3, snapshot)
              ELSE S3
    IN [S4 EXCEPT !.previousStatus = status]

\* the try block with the snapshot broadcast moved behind the events and
\* the alerts
pollTrySnapshotLast(S, res) ==
    LET status == res.primary.status
        snapshot == buildSnapshot(status, res.primary.initialized,
                                  SubCount(res.ready), SubCount(res.blocked),
                                  S.cur)
        S1 == [S EXCEPT !.lastSnapshot = snapshot]
        S2 == IF status # Null /\ S1.previousStatus # Null
              THEN EmitAllFrom(S1, 1, detectChanges(S1.previousStatus, status))
              ELSE S1
        S3 == checkAlerts(S2, snapshot)
        S4 == broadcast(S3, snapshot)
    IN [S4 EXCEPT !.previousStatus = status]

\* the try block keeping the previous status when the source returns no
\* status
pollTryKeepsPrevious(S, res) ==
    LET status == res.primary.status
        snapshot == buildSnapshot(status, res.primary.initialized,
                                  SubCount(res.ready), SubCount(res.blocked),
                                  S.cur)
        S1 == [S EXCEPT !.lastSnapshot = snapshot]
        S2 == broadcast(S1, snapshot)
        S3 == IF S2.threw THEN S2
              ELSE IF status # Null /\ S2.previousStatus # Null
              THEN EmitAllFrom(S2, 1, detectChanges(S2.previousStatus, status))
              ELSE S2
        S4 == IF S3.threw THEN S3 ELSE checkAlerts(S3, snapshot)
    IN IF S4.threw \/ status = Null THEN S4
       ELSE [S4 EXCEPT !.previousStatus = status]

\* the try block once the primary fetch has resolved
pollTry(S, res) ==
    LET status == res.primary.status
        snapshot == buildSnapshot(status, res.primary.initialized,
                                  SubCount(res.ready), SubCount(res.blocked),
                                  S.cur)
        S1 == [S EXCEPT !.lastSnapshot = snapshot]
        S2 == broadcast(S1, snapshot)
        S3 == IF S2.threw THEN S2
              ELSE IF status # Null /\ S2.previousStatus # Null
              THEN EmitAllFrom(S2, 1, detectChanges(S2.previousStatus, status))
              ELSE S2
        S4 == IF S3.threw THEN S3 ELSE checkAlerts(S3, snapshot)
    IN IF S4.threw THEN S4 ELSE [S4 EXCEPT !.previousStatus = status]

\* the catch block also dropping the previous status
pollCatchDropsPrevious(S) ==
    [emitEvent([S EXCEPT !.threw = FALSE], "system", "error",
               [error |-> "Failed to collect telemetry"])
     EXCEPT !.previousStatus = Null]

\* the catch block
pollCatch(S) ==
    emitEvent([S EXCEPT !.threw = FALSE], "system", "error",
              [error |-> "Failed to collect telemetry"])

\* poll() with the sub-fetches not caught: a rejected sub-fetch rejects the
\* Promise.all
pollSettledSubFetchRejects(S, t, res) ==
    LET S0 == [S EXCEPT !.inflight = @ \ {t}, !.cur = t]
    IN IF res.primary = Fail \/ res.ready = Fail \/ res.blocked = Fail
       THEN pollCatch(S0)
       ELSE LET T == pollTry(S0, res)
            IN IF T.threw THEN pollCatch(T) ELSE T

pollSettled(S, t, res) ==
    LET S0 == [S EXCEPT !.inflight = @ \ {t}, !.cur = t]
    IN IF res.primary = Fail THEN pollCatch(S0)
       ELSE LET T == pollTry(S0, res)
            IN IF T.threw THEN pollCatch(T) ELSE T

\* ------------------------------------------------------------------------
\* Actions: one per handler the event loop runs
\* ------------------------------------------------------------------------
\* the poll a client id was sent a message of last: the last send to it
\* in this handler, else what it was before
SeenAfter(S, id) ==
    LET idx == {i \in 1..Len(S.out) : S.out[i].to = id}
    IN IF idx = {} THEN seen[id]
       ELSE S.out[CHOOSE i \in idx : \A j \in idx : j <= i].tick

CommitStreamer(S, op, arg, res) ==
    /\ clients' = Compact(S.clients)
    /\ pollInterval' = S.pollInterval
    /\ activeTimers' = S.activeTimers
    /\ due' = S.due
    /\ lastSnapshot' = S.lastSnapshot
    /\ previousStatus' = S.previousStatus
    /\ alertState' = S.alertState
    /\ inflight' = S.inflight
    /\ nextTick' = S.nextTick
    /\ firstTicks' = S.firstTicks
    /\ hooks' = S.hooks
    /\ calls' = S.calls
    /\ out' = S.out
    /\ seen' = [id \in Clients |->
                  IF op = "removeClient" /\ id = arg THEN 0
                  ELSE SeenAfter(S, id)]
    /\ last' = [op |-> op, arg |-> arg, res |-> res, threw |-> S.threw,
                hadPrevious |-> previousStatus # Null]
    /\ UNCHANGED << now, throwers >>
    /\ UNCHANGED << logVars, laterVars >>

Commit(S, op, arg, res) ==
    /\ CommitStreamer(S, op, arg, res)
    /\ UNCHANGED << emits, streak, diffPrev >>

\* a stream request arrives: telemetryStreamer.addClient(client, townRoot)
AddClient(id) ==
    /\ (~pollInterval /\ Len(ClientsSet(clients, id)) = 1) =>
            nextTick <= MaxTicks
    /\ Commit(addClient(Cur, id), "addClient", id, Null)

\* the request closes: telemetryStreamer.removeClient(id)
RemoveClient(id) ==
    /\ id \in Clients
    /\ Commit(removeClient(Cur, id), "removeClient", id, Null)

\* the setInterval callback runs
TimerFire ==
    /\ activeTimers > 0
    /\ now >= due
    /\ nextTick <= MaxTicks
    /\ Commit([poll(Cur) EXCEPT !.due = now + POLL_INTERVAL],
              "timer", nextTick, Null)

\* the Promise.all of poll number t settles with res
PollSettle(t, res) ==
    /\ t \in inflight
    /\ res \in FetchResults
    /\ Commit(pollSettled(Cur, t, res), "poll", t, res)

\* time passes
Advance ==
    /\ now < ClockStart + MaxAdvances * POLL_INTERVAL
    /\ now' = now + POLL_INTERVAL
    /\ out' = << >>
    /\ calls' = << >>
    /\ last' = [op |-> "advance", arg |-> 0, res |-> Null, threw |-> FALSE,
                hadPrevious |-> previousStatus # Null]
    /\ UNCHANGED << clients, pollInterval, activeTimers, due, lastSnapshot,
                    previousStatus, alertState, inflight, nextTick,
                    firstTicks, throwers, hooks, seen, emits, streak,
                    diffPrev >>
    /\ UNCHANGED << logVars, laterVars >>

\* the streamer when the module is loaded, Date.now() being one of starts
InitStreamerAt(starts) ==
    /\ clients = << >>
    /\ pollInterval = FALSE
    /\ activeTimers = 0
    /\ due = 0
    /\ lastSnapshot = Null
    /\ previousStatus = Null
    /\ alertState = EmptyMap
    /\ inflight = {}
    /\ nextTick = 1
    /\ firstTicks = {}
    /\ now \in starts
    /\ seen = [id \in Clients |-> 0]
    /\ calls = << >>
    /\ out = << >>
    /\ last = [op |-> "init", arg |-> 0, res |-> Null, threw |-> FALSE,
               hadPrevious |-> FALSE]
    /\ emits = [c \in Tracked |-> << >>]
    /\ streak = {}
    /\ diffPrev = Null

InitStreamer == InitStreamerAt({ClockStart})

NoHooks == [id \in Clients |-> NoHook]

InitLogStreamer ==
    /\ logClients = << >>
    /\ logProcess = 0
    /\ procs = EmptyMap
    /\ nextProc = 1
    /\ buffer = << >>
    /\ nextEntry = 1
    /\ logOut = << >>
    /\ logLast = [op |-> "init", arg |-> 0, hadProcess |-> FALSE]

\* options.maxEvents when the embedding component passes none
DefaultMaxEvents == 100

\* the hook after its first render, with options.maxEvents drawn from caps
InitFeedWith(caps) ==
    /\ feedEvents = << >>
    /\ maxEvents \in caps
    /\ feedNow = 0
    /\ accepted = << >>
    /\ feedLast = [op |-> "init", calls |-> << >>]

InitFeed == InitFeedWith({DefaultMaxEvents})

\* the hook after its first render, before the mount effect has run
InitConnWith(enabled) ==
    /\ hook = "rendered"
    /\ hookEnabled \in enabled
    /\ sourceRef = [src \in {"dashboard", "convoys"} |-> 0]
    /\ eventSources = EmptyMap
    /\ connectedFlags = [src \in {"dashboard", "convoys"} |-> FALSE]
    /\ reconnectTimeouts = [src \in {"dashboard", "convoys"} |-> 0]
    /\ timers = {}
    /\ nextSource = 1
    /\ nextTimer = 1
    /\ connNow = 0
    /\ connLast = [op |-> "init", arg |-> 0]

InitConn == InitConnWith({TRUE})

\* options.timeout when the caller passes none (ms)
DEFAULT_TIMEOUT == 30000

\* a runCommand call that has spawned its subprocess and set its timer
InitRunWith(timeouts, procStates, traps) ==
    /\ runPromise = [state |-> "pending", value |-> Null]
    /\ runProc \in procStates
    /\ runTraps \in traps
    /\ runSignalled = FALSE
    /\ runTimer = TRUE
    /\ runTimeout \in timeouts
    /\ runNow = 0
    /\ runStdout = << >>
    /\ runStderr = << >>
    /\ runSettledAt = -1
    /\ runLast = "spawn"

InitRun == InitRunWith({DEFAULT_TIMEOUT}, {"running"}, {FALSE})

CACHE_TTL == 5000

\* the status service module when it is loaded
InitCache ==
    /\ statusCache = Null
    /\ cachePending = EmptyMap
    /\ nextCall = 1
    /\ cacheNow = ClockStart
    /\ cacheStoredAt = 0
    /\ cacheInvalidated = FALSE
    /\ cacheLast = [op |-> "init", invoked |-> FALSE, returned |-> Null]

\* an AlarmPanel that is about to render its first props
InitPanelWith(agentLists, rigLists) ==
    /\ panelAgents \in agentLists
    /\ panelRigs \in rigLists
    /\ panelOut = Null

InitPanel == InitPanelWith({<< >>}, {<< >>})

InitLater == InitFeed /\ InitConn /\ InitRun /\ InitCache /\ InitPanel

\* the two streamers with send functions that deliver and return
InitServer ==
    InitStreamer /\ InitLogStreamer /\ throwers = {} /\ hooks = NoHooks

\* every send function delivers and returns
Init == InitServer /\ InitLater

\* some send functions throw
InitThrow ==
    /\ InitStreamer
    /\ InitLogStreamer
    /\ throwers \in SUBSET Clients
    /\ hooks = NoHooks
    /\ InitLater

\* one send function calls addClient or removeClient of the streamer
InitReentrant ==
    /\ InitStreamer
    /\ InitLogStreamer
    /\ throwers = {}
    /\ hooks \in {h \in [Clients -> HookValues] :
                     Cardinality({id \in Clients : h[id] # NoHook}) <= 1}
    /\ InitLater

Next ==
    \/ \E id \in Clients : AddClient(id)
    \/ \E id \in Clients : RemoveClient(id)
    \/ TimerFire
    \/ \E t \in 1..MaxTicks : \E res \in FetchResults : PollSettle(t, res)
    \/ Advance

Spec == Init /\ [][Next]_vars

SpecThrow == InitThrow /\ [][Next]_vars

SpecReentrant == InitReentrant /\ [][Next]_vars

\* ------------------------------------------------------------------------
\* The poller over a minute: one subscriber, ticks at 30 s, 30.001 s and
\* 31 s from one another, and statuses that raise two alert codes
\* ------------------------------------------------------------------------
StatusStuckBacklog ==
    [agents |-> << Agent("a1", TRUE, TRUE, "stuck", "bd-42", "Fix login") >>,
     rigs   |-> << Rig("r1", Mq(MQ_BACKLOG_LIMIT + 1, 0, "idle", "healthy")) >>]

CooldownStatuses == {StatusStuck, StatusStuckBacklog}

CooldownResults ==
    [primary : {Fail, [initialized |-> FALSE, status |-> Null]}
               \cup {[initialized |-> TRUE, status |-> st] :
                        st \in CooldownStatuses},
     ready : {[length |-> 1]}, blocked : {[length |-> 1]}]

ElapseSteps == {ALERT_COOLDOWN \div 2, ALERT_COOLDOWN \div 2 + 1,
                ALERT_COOLDOWN \div 2 + 1000}

\* the alert codes among the messages of a list of broadcast calls
EmittedCodes(cs) ==
    {cs[k].msg.code : k \in {j \in 1..Len(cs) : cs[j].msg.type = "alert"}}

\* a message that reports the system as unreachable: the system_offline
\* alert, or the system error event of the catch block
IsOutageMessage(m) ==
    \/ m.type = "alert" /\ m.code = "system_offline"
    \/ m.type = "event" /\ m.category = "system" /\ m.event_type = "error"

SentNow(cs) ==
    EmittedCodes(cs)
    \cup (IF \E k \in 1..Len(cs) : IsOutageMessage(cs[k].msg)
          THEN {"outage"} ELSE {})

\* the system is unreachable in a settled tick
Unreachable(res) == res.primary = Fail \/ ~res.primary.initialized

\* the condition of a tracked code in the tick that settled with res and
\* left the streamer as S (a tick whose fetch failed evaluates no alert
\* condition: it breaks no streak)
TrackedCondition(c, S, res) ==
    IF c = "outage" THEN Unreachable(res)
    ELSE res.primary = Fail \/ AlertCondition(c, S.lastSnapshot)

StreakAfter(S, op, res) ==
    IF op # "poll" THEN streak
    ELSE {c \in Tracked : /\ TrackedCondition(c, S, res)
                          /\ (c \in SentNow(S.calls) \/ c \in streak)}

CommitCooldown(S, op, arg, res) ==
    /\ CommitStreamer(S, op, arg, res)
    /\ emits' = [c \in Tracked |-> IF c \in SentNow(S.calls)
                                   THEN Append(emits[c], now) ELSE emits[c]]
    /\ streak' = StreakAfter(S, op, res)
    /\ UNCHANGED diffPrev

\* the subscriber attaches; it stays attached, so that the timer runs from
\* then on
CooldownAddClient ==
    /\ Len(clients) = 0
    /\ nextTick <= MaxCooldownTicks
    /\ CommitCooldown(addClient(Cur, "c1"), "addClient", "c1", Null)

CooldownTimerFire ==
    /\ activeTimers > 0
    /\ now >= due
    /\ nextTick <= MaxCooldownTicks
    /\ CommitCooldown([poll(Cur) EXCEPT !.due = now + POLL_INTERVAL],
                      "timer", nextTick, Null)

CooldownPollSettle(t, res) ==
    /\ t \in inflight
    /\ res \in CooldownResults
    /\ CommitCooldown(pollSettled(Cur, t, res), "poll", t, res)

\* the number of clock advances made so far is not kept: the horizon is
\* MaxElapses advances of the longest step
Elapse(dt) ==
    /\ dt \in ElapseSteps
    /\ now + dt <= ClockStart + MaxElapses * (ALERT_COOLDOWN \div 2 + 1000)
    /\ now' = now + dt
    /\ out' = << >>
    /\ calls' = << >>
    /\ last' = [op |-> "advance", arg |-> 0, res |-> Null, threw |-> FALSE,
                hadPrevious |-> previousStatus # Null]
    /\ UNCHANGED << clients, pollInterval, activeTimers, due, lastSnapshot,
                    previousStatus, alertState, inflight, nextTick,
                    firstTicks, throwers, hooks, seen, emits, streak,
                    diffPrev >>
    /\ UNCHANGED << logVars, laterVars >>

NextCooldown ==
    \/ CooldownAddClient
    \/ CooldownTimerFire
    \/ \E t \in 1..MaxCooldownTicks : \E res \in CooldownResults :
          CooldownPollSettle(t, res)
    \/ \E dt \in ElapseSteps : Elapse(dt)

SpecCooldown == Init /\ [][NextCooldown]_vars

\* ------------------------------------------------------------------------
\* The same poller on a host whose clock reads the first minutes after the
\* epoch (Date.now() is the host clock: a host without a clock source
\* starts it at 0)
\* ------------------------------------------------------------------------
MaxEpochElapses == 3

EpochStarts == {0, ALERT_COOLDOWN, ALERT_COOLDOWN + 1}

InitEpoch ==
    /\ InitStreamerAt(EpochStarts)
    /\ InitLogStreamer
    /\ throwers = {}
    /\ hooks = NoHooks
    /\ InitLater

EpochElapse ==
    /\ now + ALERT_COOLDOWN \div 2
         <= ALERT_COOLDOWN + 1 + MaxEpochElapses * (ALERT_COOLDOWN \div 2)
    /\ now' = now + ALERT_COOLDOWN \div 2
    /\ out' = << >>
    /\ calls' = << >>
    /\ last' = [op |-> "advance", arg |-> 0, res |-> Null, threw |-> FALSE,
                hadPrevious |-> previousStatus # Null]
    /\ UNCHANGED << clients, pollInterval, activeTimers, due, lastSnapshot,
                    previousStatus, alertState, inflight, nextTick,
                    firstTicks, throwers, hooks, seen, emits, streak,
                    diffPrev >>
    /\ UNCHANGED << logVars, laterVars >>

NextEpoch ==
    \/ CooldownAddClient
    \/ CooldownTimerFire
    \/ \E t \in 1..MaxCooldownTicks : \E res \in CooldownResults :
          CooldownPollSettle(t, res)
    \/ EpochElapse

SpecEpoch == InitEpoch /\ [][NextEpoch]_vars

\* ------------------------------------------------------------------------
\* The alert rules over the statuses and counts at their thresholds: one
\* subscriber that attaches and detaches, each attachment polling once
\* ------------------------------------------------------------------------
RuleAgent(n, r, s) == Agent(n, r, FALSE, s, "", "")

RuleAgents ==
    { << >>,
      << RuleAgent("a1", TRUE, "idle") >>,
      << RuleAgent("a1", FALSE, "idle") >>,
      << RuleAgent("a1", TRUE, "stuck") >>,
      << RuleAgent("a1", FALSE, "stuck") >>,
      << RuleAgent("a1", FALSE, "idle"), RuleAgent("a2", TRUE, "idle") >>,
      << RuleAgent("a1", TRUE, "idle"), RuleAgent("a2", TRUE, "stuck") >> }

RuleRigs ==
    { << >>,
      << Rig("r1", Null) >>,
      << Rig("r1", Mq(MQ_BACKLOG_LIMIT, 0, "idle", "healthy")) >>,
      << Rig("r1", Mq(MQ_BACKLOG_LIMIT + 1, 0, "idle", "healthy")) >>,
      << Rig("r1", Mq(MQ_BACKLOG_LIMIT \div 2, 0, "idle", "healthy")),
         Rig("r2", Mq(MQ_BACKLOG_LIMIT \div 2, 0, "idle", "healthy")) >>,
      << Rig("r1", Mq(MQ_BACKLOG_LIMIT \div 2, 0, "idle", "healthy")),
         Rig("r2", Mq(MQ_BACKLOG_LIMIT \div 2 + 1, 0, "idle", "healthy")) >>,
      << Rig("r1", Mq(0, 0, "idle", "stale")) >>,
      << Rig("r1", Mq(0, 0, "blocked", "healthy")) >>,
      << Rig("r1", Mq(0, 0, "idle", "healthy")),
         Rig("r2", Mq(0, 0, "processing", "stale")) >> }

RuleStatuses == [agents : RuleAgents, rigs : RuleRigs]

RuleResults ==
    [primary : {[initialized |-> FALSE, status |-> Null],
                [initialized |-> FALSE, status |-> StatusQuiet]}
               \cup {[initialized |-> TRUE, status |-> st] :
                        st \in RuleStatuses},
     ready : {Fail} \cup {[length |-> n] :
                            n \in {0, 1, WORK_BACKLOG_LIMIT,
                                   WORK_BACKLOG_LIMIT + 1}},
     blocked : {[length |-> 0]}]

RulesAddClient ==
    /\ Len(clients) = 0
    /\ nextTick <= MaxRuleTicks
    /\ Commit(addClient(Cur, "c1"), "addClient", "c1", Null)

RulesRemoveClient ==
    /\ Len(clients) > 0
    /\ Commit(removeClient(Cur, "c1"), "removeClient", "c1", Null)

RulesPollSettle(t, res) ==
    /\ t \in inflight
    /\ res \in RuleResults
    /\ Commit(pollSettled(Cur, t, res), "poll", t, res)

NextRules ==
    \/ RulesAddClient
    \/ RulesRemoveClient
    \/ \E t \in 1..MaxRuleTicks : \E res \in RuleResults :
          RulesPollSettle(t, res)

SpecRules == Init /\ [][NextRules]_vars

\* ------------------------------------------------------------------------
\* The differ over pairs of statuses: one subscriber that stays attached,
\* consecutive ticks whose statuses differ in agents or in rigs
\* ------------------------------------------------------------------------
DiffAgent(n, r, w, s) ==
    Agent(n, r, w, s, IF w THEN "bd-42" ELSE "", IF w THEN "Fix login" ELSE "")

DiffAgentValues ==
    {DiffAgent("a1", r, w, s) :
        r \in BOOLEAN, w \in BOOLEAN, s \in {"idle", "working", ""}}

DiffAgents ==
    {<< >>, << DiffAgent("a2", TRUE, FALSE, "idle") >>}
    \cup {<< a >> : a \in DiffAgentValues}
    \cup {<< a, DiffAgent("a2", TRUE, FALSE, "idle") >> : a \in DiffAgentValues}

DiffMqValues ==
    {Null, Mq(0, 0, "idle", "healthy"), Mq(5, 1, "idle", "healthy"),
     Mq(0, 0, "idle", "stale"), Mq(0, 0, "blocked", "healthy"),
     Mq(5, 1, "blocked", "stale")}

DiffRigs ==
    {<< >>, << Rig("r2", Mq(0, 0, "idle", "healthy")) >>}
    \cup {<< Rig("r1", mq) >> : mq \in DiffMqValues}
    \cup {<< Rig("r1", mq), Rig("r2", Mq(0, 0, "idle", "healthy")) >> :
             mq \in DiffMqValues}

DiffStatuses ==
    {[agents |-> a, rigs |-> << Rig("r1", Mq(0, 0, "idle", "healthy")) >>] :
        a \in DiffAgents}
    \cup {[agents |-> << DiffAgent("a1", TRUE, FALSE, "idle") >>, rigs |-> r] :
             r \in DiffRigs}

DiffResults ==
    [primary : {[initialized |-> TRUE, status |-> st] : st \in DiffStatuses},
     ready : {[length |-> 0]}, blocked : {[length |-> 0]}]

DiffAddClient ==
    /\ Len(clients) = 0
    /\ nextTick <= MaxDiffTicks
    /\ Commit(addClient(Cur, "c1"), "addClient", "c1", Null)

DiffTimerFire ==
    /\ activeTimers > 0
    /\ now >= due
    /\ nextTick <= MaxDiffTicks
    /\ Commit([poll(Cur) EXCEPT !.due = now + POLL_INTERVAL],
              "timer", nextTick, Null)

DiffPollSettle(t, res) ==
    /\ t \in inflight
    /\ res \in DiffResults
    /\ CommitStreamer(pollSettled(Cur, t, res), "poll", t, res)
    /\ diffPrev' = previousStatus
    /\ UNCHANGED << emits, streak >>

NextDiff ==
    \/ DiffAddClient
    \/ DiffTimerFire
    \/ \E t \in 1..MaxDiffTicks : \E res \in DiffResults :
          DiffPollSettle(t, res)
    \/ Advance

SpecDiff == Init /\ [][NextDiff]_vars

\* ------------------------------------------------------------------------
\* LogStreamer: the "gt logs --follow" subprocess, the ring buffer and the
\* log subscribers
\* ------------------------------------------------------------------------
LogCur ==
    [clients |-> logClients, process |-> logProcess, procs |-> procs,
     nextProc |-> nextProc, buffer |-> buffer, nextEntry |-> nextEntry,
     out |-> << >>]

\* start(): spawn unless this.process is set
LogStreamer_start(L) ==
    IF L.process # 0 THEN L
    ELSE [L EXCEPT !.process = L.nextProc,
                   !.procs = MapPut(@, L.nextProc, "running"),
                   !.nextProc = @ + 1]

\* stop(): kill the subprocess this.process refers to and forget it
LogStreamer_stop(L) ==
    IF L.process = 0 THEN L
    ELSE [L EXCEPT !.procs = IF L.process \in DOMAIN @
                             THEN [@ EXCEPT ![L.process] = "killed"] ELSE @,
                   !.process = 0]

LogStreamer_broadcast(L, event, data) ==
    [L EXCEPT !.out = @ \o [i \in 1..Len(L.clients) |->
                               [to |-> L.clients[i], event |-> event,
                                data |-> data]]]

\* addEntry dropping the incoming entry, not the oldest, from a full buffer
LogStreamer_addEntryKeepsOldest(L, entry) ==
    LET L1 == [L EXCEPT !.buffer = IF Len(L.buffer) >= maxBufferSize
                                   THEN L.buffer ELSE Append(L.buffer, entry)]
    IN LogStreamer_broadcast(L1, "log", entry)

LogStreamer_addEntry(L, entry) ==
    LET pushed == Append(L.buffer, entry)
        L1 == [L EXCEPT !.buffer = IF Len(pushed) > maxBufferSize
                                   THEN Tail(pushed) ELSE pushed]
    IN LogStreamer_broadcast(L1, "log", entry)

LogStreamer_addClient(L, id) ==
    LET L1 == [L EXCEPT !.clients = ClientsSet(@, id)]
        L2 == [L1 EXCEPT !.out = @ \o [i \in 1..Len(L1.buffer) |->
                                          [to |-> id, event |-> "log",
                                           data |-> L1.buffer[i]]]]
    IN IF L2.process = 0 THEN LogStreamer_start(L2) ELSE L2

LogStreamer_removeClient(L, id) ==
    LET L1 == [L EXCEPT !.clients = SelectSeq(@, LAMBDA c : c # id)]
    IN IF Len(L1.clients) = 0 THEN LogStreamer_stop(L1) ELSE L1

\* the "close" handler start() attaches to the subprocess it spawns
LogStreamer_onClose(L, p) ==
    LogStreamer_broadcast([L EXCEPT !.process = 0,
                                    !.procs = MapDelete(@, p)],
                          "status", [connected |-> FALSE])

LogCommit(L, op, arg) ==
    /\ logClients' = L.clients
    /\ logProcess' = L.process
    /\ procs' = L.procs
    /\ nextProc' = L.nextProc
    /\ buffer' = L.buffer
    /\ nextEntry' = L.nextEntry
    /\ logOut' = L.out
    /\ logLast' = [op |-> op, arg |-> arg, hadProcess |-> logProcess # 0]
    /\ UNCHANGED << telemetryVars, laterVars >>

\* a log stream request arrives: logStreamer.addClient(client)
LogAddClient(id) ==
    /\ logProcess = 0 => nextProc <= MaxProcs
    /\ LogCommit(LogStreamer_addClient(LogCur, id), "addClient", id)

\* the request closes: logStreamer.removeClient(id)
LogRemoveClient(id) ==
    /\ id \in Clients
    /\ LogCommit(LogStreamer_removeClient(LogCur, id), "removeClient", id)

\* a subprocess that has not closed writes a line to stdout (level "info")
\* or a chunk to stderr (level "error"): the "data" handlers
ProcessData(p, level) ==
    /\ p \in DOMAIN procs
    /\ nextEntry <= MaxLogEntries
    /\ LogCommit(LogStreamer_addEntry([LogCur EXCEPT !.nextEntry = @ + 1],
                                      [n |-> nextEntry, source |-> "gastown",
                                       level |-> level, from |-> p]),
                 "data", p)

\* a subprocess has exited, killed or by itself, and its streams are closed
ProcessClose(p) ==
    /\ p \in DOMAIN procs
    /\ LogCommit(LogStreamer_onClose(LogCur, p), "close", p)

NextLog ==
    \/ \E id \in Clients : LogAddClient(id)
    \/ \E id \in Clients : LogRemoveClient(id)
    \/ \E p \in 1..MaxProcs : \E level \in {"info", "error"} :
          ProcessData(p, level)
    \/ \E p \in 1..MaxProcs : ProcessClose(p)

SpecLog == Init /\ [][NextLog]_vars

\* a subprocess that was killed has exited and its streams are closed
KilledProcessClose(p) ==
    /\ p \in DOMAIN procs
    /\ procs[p] = "killed"
    /\ LogCommit(LogStreamer_onClose(LogCur, p), "close", p)

\* the LogStreamer with subprocesses that end only when they are killed
NextLogKilled ==
    \/ \E id \in Clients : LogAddClient(id)
    \/ \E id \in Clients : LogRemoveClient(id)
    \/ \E p \in 1..MaxProcs : \E level \in {"info", "error"} :
          ProcessData(p, level)
    \/ \E p \in 1..MaxProcs : KilledProcessClose(p)

SpecLogKilled == Init /\ [][NextLogKilled]_vars

\* ------------------------------------------------------------------------
\* The LogStreamer one entry short of a full buffer: subscriber c1 has
\* attached, subprocess 1 runs and has written maxBufferSize - 1 lines
\* ------------------------------------------------------------------------
MaxFilledEntries == 2

LogFill == maxBufferSize - 1

LogLine(n, p, level) ==
    [n |-> n, source |-> "gastown", level |-> level, from |-> p]

InitLogFilled ==
    /\ logClients = << "c1" >>
    /\ logProcess = 1
    /\ procs = MapPut(EmptyMap, 1, "running")
    /\ nextProc = 2
    /\ buffer = [i \in 1..LogFill |-> LogLine(i, 1, "info")]
    /\ nextEntry = LogFill + 1
    /\ logOut = << >>
    /\ logLast = [op |-> "data", arg |-> 1, hadProcess |-> TRUE]

InitFilled ==
    /\ InitStreamer
    /\ InitLogFilled
    /\ throwers = {}
    /\ hooks = NoHooks
    /\ InitLater

\* a subprocess that has not closed writes one more line to stdout
FilledProcessData(p) ==
    /\ p \in DOMAIN procs
    /\ nextEntry <= LogFill + MaxFilledEntries
    /\ LogCommit(LogStreamer_addEntry([LogCur EXCEPT !.nextEntry = @ + 1],
                                      LogLine(nextEntry, p, "info")),
                 "data", p)

NextLogFilled ==
    \/ \E id \in Clients : LogAddClient(id)
    \/ \E id \in Clients : LogRemoveClient(id)
    \/ \E p \in 1..MaxProcs : FilledProcessData(p)
    \/ \E p \in 1..MaxProcs : ProcessClose(p)

SpecLogFilled == InitFilled /\ [][NextLogFilled]_vars

\* ---------------------------------------------------------------------
\* The client hook useUnifiedEventFeed: the merged event list
\* ---------------------------------------------------------------------

\* the largest options.maxEvents tried
MaxCap == 2

\* the list is followed until this many events were inserted
MaxAccepted == 3

\* the longest recent_events array of one metrics message
MaxBatch == 2

\* the browser's clock is followed up to this time (ms)
MaxFeedClock == 1500

\* an ISO 8601 timestamp "1970-01-01T00:00:SS.mmmZ" is the pair of its
\* seconds and milliseconds fields
\* new Date(timestamp).getTime()
getTime(timestamp) == timestamp.s * 1000 + timestamp.ms

\* new Date(t).toISOString()
toISOString(t) == [s |-> t \div 1000, ms |-> t % 1000]

Abs(x) == IF x < 0 THEN 0 - x ELSE x

\* the fields of a UnifiedEvent that the merger reads (the id has a random
\* suffix and is never compared)
UnifiedEvent(type, title, description, metadata, timestamp) ==
    [type |-> type, title |-> title, description |-> description,
     metadata |-> metadata, timestamp |-> timestamp]

\* a string that is defined (undefined is Null)
Str(text) == [str |-> text]

\* a message of a raw dashboard event, with what indexOf(":"), slice and
\* slice(colonIdx + 1).trim() and includes("started:") || includes("slung")
\* give on it
Message(text, colonIdx, head, tail, sling) ==
    [text |-> text, colonIdx |-> colonIdx, head |-> head, tail |-> tail,
     sling |-> sling]

normalizeDashboardEvent(raw) ==
    LET type == IF raw.type = "agent" THEN "agent"
                ELSE IF raw.type = "work"
                     THEN IF raw.message.sling THEN "sling" ELSE "step"
                ELSE IF raw.type = "error" \/ raw.severity = "error"
                     THEN "escalation"
                ELSE "system"
        colonIdx == raw.message.colonIdx
        title == IF colonIdx > 0 /\ colonIdx < 30
                 THEN raw.message.head
                 ELSE raw.message.text
        description == IF colonIdx > 0 /\ colonIdx < 30
                       THEN Str(raw.message.tail)
                       ELSE Null
    IN  UnifiedEvent(type, title, description,
                     [source |-> "dashboard", originalType |-> raw.type],
                     raw.timestamp)

\* normalizeConvoyEvent(eventType, data) when new Date() gives t
normalizeConvoyEvent(eventType, data, t) ==
    LET title == CASE eventType = "convoy:created" -> "Convoy created"
                   [] eventType = "convoy:updated" -> "Convoy progress"
                   [] eventType = "convoy:closed" -> "Convoy completed"
                   [] eventType = "issue:status" -> "Issue status changed"
                   [] eventType = "worker:assigned" -> "Worker assigned"
                   [] OTHER -> eventType
        description ==
            CASE eventType \in {"convoy:created", "convoy:closed"} ->
                    Str(data.convoy_id)
              [] eventType = "convoy:updated" ->
                    Str(<< data.completed, "/", data.total, " complete (",
                           data.progress, "%)" >>)
              [] eventType = "issue:status" ->
                    Str(<< data.issue_id, ": ", data.old_status, " -> ",
                           data.new_status >>)
              [] eventType = "worker:assigned" ->
                    Str(<< data.worker, " -> ", data.issue_id >>)
              [] OTHER -> Str(data)
    IN  UnifiedEvent("convoy", title, description,
                     data @@ [source |-> "convoys", eventType |-> eventType],
                     toISOString(t))

isDuplicate(prev, event) ==
    \E i \in 1..Len(prev) :
        /\ prev[i].type = event.type
        /\ prev[i].title = event.title
        /\ Abs(getTime(prev[i].timestamp) - getTime(event.timestamp)) < 1000

\* array.slice(0, n) for n >= 0
Slice(array, n) ==
    SubSeq(array, 1, IF n < Len(array) THEN n ELSE Len(array))

addEventInclusive(prev, event, cap) ==
    IF \E i \in 1..Len(prev) :
          /\ prev[i].type = event.type
          /\ prev[i].title = event.title
          /\ Abs(getTime(prev[i].timestamp) - getTime(event.timestamp))
               <= 1000
    THEN prev
    ELSE Slice(<< event >> \o prev, cap)

addEventKeepsOldest(prev, event, cap) ==
    IF isDuplicate(prev, event) THEN prev
    ELSE IF Len(prev) < cap THEN << event >> \o prev ELSE prev

\* the updater with a duplicate test that compares the description too
addEventComparesDescription(prev, event, cap) ==
    IF \E i \in 1..Len(prev) :
          /\ prev[i].type = event.type
          /\ prev[i].title = event.title
          /\ prev[i].description = event.description
          /\ Abs(getTime(prev[i].timestamp) - getTime(event.timestamp))
               < 1000
    THEN prev
    ELSE Slice(<< event >> \o prev, cap)

\* the updater that addEvent passes to setEvents
addEvent(prev, event, cap) ==
    IF isDuplicate(prev, event) THEN prev
    ELSE Slice(<< event >> \o prev, cap)

\* the hook's list state as a record
FeedCur == [events |-> feedEvents, accepted |-> accepted, calls |-> << >>]

\* addEvent called on evs[i], evs[i+1], ... in turn
RECURSIVE AddEventsFrom(_, _, _, _)
AddEventsFrom(F, evs, i, cap) ==
    IF i > Len(evs) THEN F
    ELSE LET next == addEvent(F.events, evs[i], cap)
             call == [prev |-> F.events, event |-> evs[i], next |-> next]
         IN  AddEventsFrom(
                 [events |-> next,
                  accepted |-> IF isDuplicate(F.events, evs[i])
                               THEN F.accepted
                               ELSE Append(F.accepted, evs[i]),
                  calls |-> Append(F.calls, call)],
                 evs, i + 1, cap)

\* the raw events the dashboard stream carries
FeedTimes == {0, 500, 1500}

RawEvents ==
    { [timestamp |-> toISOString(t), type |-> "agent", severity |-> "info",
       message |-> Message("mayor: idle", 5, "mayor", "idle", FALSE)] :
         t \in FeedTimes }
    \cup
    { [timestamp |-> toISOString(t), type |-> "work", severity |-> "info",
       message |-> Message("work slung to a polecat", -1, "", "", TRUE)] :
         t \in {0} }

RawBatches ==
    UNION { [1..n -> RawEvents] : n \in 0..MaxBatch }

\* the lifecycle messages the convoy stream carries: event name and data
ConvoyMessage(eventType, data) == [eventType |-> eventType, data |-> data]

ConvoyMessages == {ConvoyMessage("convoy:created", [convoy_id |-> "cv-1"])}

otherThanFeed ==
    << telemetryVars, logVars, connVars, runVars, cacheVars, panelVars >>

FeedCommit(F, op) ==
    /\ feedEvents' = F.events
    /\ accepted' = F.accepted
    /\ feedLast' = [op |-> op, calls |-> F.calls]
    /\ UNCHANGED << maxEvents, feedNow >>
    /\ UNCHANGED otherThanFeed

\* the dashboard stream delivers an "event" message
FeedDashboardEvent(rawEvent) ==
    /\ Len(accepted) < MaxAccepted
    /\ FeedCommit(AddEventsFrom(FeedCur,
                                << normalizeDashboardEvent(rawEvent) >>,
                                1, maxEvents),
                  "event")

\* the dashboard stream delivers a "metrics" message with recent_events
FeedDashboardMetrics(recent_events) ==
    /\ Len(accepted) + Len(recent_events) <= MaxAccepted
    /\ FeedCommit(AddEventsFrom(
                      FeedCur,
                      [i \in 1..Len(recent_events) |->
                          normalizeDashboardEvent(recent_events[i])],
                      1, maxEvents),
                  "metrics")

\* the convoy stream delivers one of its lifecycle messages
FeedConvoyEvent(eventType, data) ==
    /\ Len(accepted) < MaxAccepted
    /\ FeedCommit(AddEventsFrom(FeedCur,
                                << normalizeConvoyEvent(eventType, data,
                                                        feedNow) >>,
                                1, maxEvents),
                  "convoy")

\* clearEvents()
FeedClearEvents ==
    /\ feedEvents' = << >>
    /\ accepted' = << >>
    /\ feedLast' = [op |-> "clearEvents", calls |-> << >>]
    /\ UNCHANGED << maxEvents, feedNow >>
    /\ UNCHANGED otherThanFeed

\* the browser's clock advances
FeedTick(dt) ==
    /\ feedNow + dt <= MaxFeedClock
    /\ feedNow' = feedNow + dt
    /\ UNCHANGED << feedEvents, maxEvents, accepted, feedLast >>
    /\ UNCHANGED otherThanFeed

InitFeedSpec ==
    /\ InitServer
    /\ InitFeedWith(1..MaxCap)
    /\ InitConn
    /\ InitRun
    /\ InitCache
    /\ InitPanel

NextFeed ==
    \/ \E rawEvent \in RawEvents : FeedDashboardEvent(rawEvent)
    \/ \E recent_events \in RawBatches : FeedDashboardMetrics(recent_events)
    \/ \E m \in ConvoyMessages : FeedConvoyEvent(m.eventType, m.data)
    \/ FeedClearEvents
    \/ \E dt \in {500, 1000} : FeedTick(dt)

SpecFeed == InitFeedSpec /\ [][NextFeed]_vars

\* ---------------------------------------------------------------------
\* The merged list fed with messages that agree in what precedes their
\* first colon, and with progress updates of two convoys
\* ---------------------------------------------------------------------
DetailTimes == {0, 500}

DetailRawEvents ==
    { [timestamp |-> toISOString(t), type |-> "agent", severity |-> "info",
       message |-> m] :
         t \in DetailTimes,
         m \in {Message("mayor: idle", 5, "mayor", "idle", FALSE),
                Message("mayor: working on bd-42", 5, "mayor",
                        "working on bd-42", FALSE)} }

DetailConvoyMessages ==
    {ConvoyMessage("convoy:updated",
                   [convoy_id |-> "cv-1", completed |-> "1", total |-> "2",
                    progress |-> "50"]),
     ConvoyMessage("convoy:updated",
                   [convoy_id |-> "cv-2", completed |-> "3", total |-> "4",
                    progress |-> "75"])}

NextFeedDetail ==
    \/ \E rawEvent \in DetailRawEvents : FeedDashboardEvent(rawEvent)
    \/ \E m \in DetailConvoyMessages : FeedConvoyEvent(m.eventType, m.data)
    \/ FeedClearEvents
    \/ \E dt \in {500, 1000} : FeedTick(dt)

SpecFeedDetail == InitFeedSpec /\ [][NextFeedDetail]_vars

\* ---------------------------------------------------------------------
\* The client hook useUnifiedEventFeed: its two connections
\* ---------------------------------------------------------------------

\* the EventSource objects one hook may create
MaxSources == 4

\* the browser's clock is followed up to this time (ms)
MaxConnClock == 6000

\* the delay of the reconnect timers (ms)
RECONNECT_DELAY == 3000

\* the clock advances in steps of this size (ms)
ConnStep == RECONNECT_DELAY \div 3

Sources == {"dashboard", "convoys"}

\* the hook's refs and connection state as a record
ConnCur ==
    [ref |-> sourceRef, sources |-> eventSources, flags |-> connectedFlags,
     timeouts |-> reconnectTimeouts, timers |-> timers,
     nextSource |-> nextSource, nextTimer |-> nextTimer]

\* connectDashboard() / connectConvoys() at time t; cause is the number of
\* the EventSource whose error scheduled the call, 0 for the mount effect
connect(C, src, t, cause) ==
    IF ~hookEnabled THEN C
    ELSE [C EXCEPT
            !.sources = MapPut(C.sources, C.nextSource,
                               [src |-> src, readyState |-> "connecting",
                                created |-> t, cause |-> cause,
                                erroredAt |-> -1]),
            !.ref[src] = C.nextSource,
            !.nextSource = C.nextSource + 1]

\* the "open" listener of the dashboard connection; the convoy connection
\* has none
onopen(C, c) ==
    LET src == C.sources[c].src
        D == [C EXCEPT !.sources[c].readyState = "open"]
    IN  IF src = "dashboard" THEN [D EXCEPT !.flags[src] = TRUE] ELSE D

\* the "connected" listener of the convoy connection
onconnected(C, c) ==
    [C EXCEPT !.flags[C.sources[c].src] = TRUE]

onerrorNoReconnect(C, c, t) ==
    LET src == C.sources[c].src
    IN  [C EXCEPT !.flags[src] = FALSE,
                  !.sources[c].readyState = "closed",
                  !.sources[c].erroredAt = t,
                  !.ref[src] = 0]

onerrorKeepsFlag(C, c, t) ==
    LET src == C.sources[c].src
    IN  [C EXCEPT !.sources[c].readyState = "closed",
                  !.sources[c].erroredAt = t,
                  !.ref[src] = 0,
                  !.timeouts[src] = C.nextTimer,
                  !.timers = C.timers \cup
                               {[id |-> C.nextTimer, src |-> src, cause |-> c,
                                 due |-> t + RECONNECT_DELAY]},
                  !.nextTimer = C.nextTimer + 1]

\* the error handler without eventSource.close(): the browser keeps the
\* connection and retries it by itself
onerrorNoClose(C, c, t) ==
    LET src == C.sources[c].src
    IN  [C EXCEPT !.flags[src] = FALSE,
                  !.sources[c].readyState = "connecting",
                  !.sources[c].erroredAt = t,
                  !.ref[src] = 0,
                  !.timeouts[src] = C.nextTimer,
                  !.timers = C.timers \cup
                               {[id |-> C.nextTimer, src |-> src, cause |-> c,
                                 due |-> t + RECONNECT_DELAY]},
                  !.nextTimer = C.nextTimer + 1]

\* eventSource.onerror of connection c at time t
onerror(C, c, t) ==
    LET src == C.sources[c].src
    IN  [C EXCEPT !.flags[src] = FALSE,
                  !.sources[c].readyState = "closed",
                  !.sources[c].erroredAt = t,
                  !.ref[src] = 0,
                  !.timeouts[src] = C.nextTimer,
                  !.timers = C.timers \cup
                               {[id |-> C.nextTimer, src |-> src, cause |-> c,
                                 due |-> t + RECONNECT_DELAY]},
                  !.nextTimer = C.nextTimer + 1]

\* clearTimeout(id): nothing happens when the timer has fired already
clearTimeout(pending, id) == {tm \in pending : tm.id # id}

cleanupKeepsTimers(C) ==
    [C EXCEPT
        !.sources = [c \in DOMAIN C.sources |->
                        IF \E src \in Sources : C.ref[src] = c
                        THEN [C.sources[c] EXCEPT !.readyState = "closed"]
                        ELSE C.sources[c]],
        !.ref = [src \in Sources |-> 0]]

\* the function returned by the mount effect
cleanup(C) ==
    [C EXCEPT
        !.timers =
            LET dashboard == C.timeouts["dashboard"]
                convoys == C.timeouts["convoys"]
                pending == IF dashboard # 0
                           THEN clearTimeout(C.timers, dashboard)
                           ELSE C.timers
            IN  IF convoys # 0 THEN clearTimeout(pending, convoys)
                ELSE pending,
        !.sources = [c \in DOMAIN C.sources |->
                        IF \E src \in Sources : C.ref[src] = c
                        THEN [C.sources[c] EXCEPT !.readyState = "closed"]
                        ELSE C.sources[c]],
        !.ref = [src \in Sources |-> 0]]

otherThanConn ==
    << telemetryVars, logVars, feedVars, runVars, cacheVars, panelVars >>

ConnCommit(C, op, arg) ==
    /\ sourceRef' = C.ref
    /\ eventSources' = C.sources
    /\ connectedFlags' = C.flags
    /\ reconnectTimeouts' = C.timeouts
    /\ timers' = C.timers
    /\ nextSource' = C.nextSource
    /\ nextTimer' = C.nextTimer
    /\ connLast' = [op |-> op, arg |-> arg]
    /\ UNCHANGED << hookEnabled, connNow >>
    /\ UNCHANGED otherThanConn

NotClosed(c) ==
    c \in DOMAIN eventSources /\ eventSources[c].readyState # "closed"

\* the mount effect runs: connectDashboard(); connectConvoys()
Mount ==
    /\ hook = "rendered"
    /\ hook' = IF hookEnabled THEN "mounted" ELSE "idle"
    /\ ConnCommit(connect(connect(ConnCur, "dashboard", connNow, 0),
                          "convoys", connNow, 0),
                  "mount", 0)

\* connection c is established
SourceOpen(c) ==
    /\ c \in DOMAIN eventSources
    /\ eventSources[c].readyState = "connecting"
    /\ ConnCommit(onopen(ConnCur, c), "open", c)
    /\ UNCHANGED hook

\* the server's "connected" message arrives on the convoy connection c
SourceConnected(c) ==
    /\ c \in DOMAIN eventSources
    /\ eventSources[c].readyState = "open"
    /\ eventSources[c].src = "convoys"
    /\ ~connectedFlags["convoys"]
    /\ ConnCommit(onconnected(ConnCur, c), "connected", c)
    /\ UNCHANGED hook

\* connection c fails or is lost
SourceError(c) ==
    /\ NotClosed(c)
    /\ nextSource <= MaxSources
    /\ connNow + RECONNECT_DELAY <= MaxConnClock
    /\ ConnCommit(onerror(ConnCur, c, connNow), "error", c)
    /\ UNCHANGED hook

\* a reconnect timer expires
ReconnectFire(tm) ==
    /\ tm \in timers
    /\ tm.due <= connNow
    /\ ConnCommit(connect([ConnCur EXCEPT !.timers = timers \ {tm}],
                          tm.src, connNow, tm.cause),
                  "reconnect", tm.src)
    /\ UNCHANGED hook

\* the mount effect's cleanup runs: the hook is unmounted, or enabled has
\* turned false and the effect that runs again returns at once
Teardown ==
    /\ hook = "mounted"
    /\ hook' = "torn"
    /\ ConnCommit(cleanup(ConnCur), "teardown",
                  [timers |-> Cardinality(timers),
                   open |-> Cardinality({c \in DOMAIN eventSources :
                                            eventSources[c].readyState
                                              = "open"})])

\* time passes, no further than the next timer
ConnTick ==
    /\ connNow + ConnStep <= MaxConnClock
    /\ \A tm \in timers : tm.due >= connNow + ConnStep
    /\ connNow' = connNow + ConnStep
    /\ UNCHANGED << sourceRef, eventSources, connectedFlags,
                    reconnectTimeouts, timers, nextSource, nextTimer, hook,
                    hookEnabled, connLast >>
    /\ UNCHANGED otherThanConn

InitConnSpec ==
    /\ InitServer
    /\ InitFeed
    /\ InitConnWith(BOOLEAN)
    /\ InitRun
    /\ InitCache
    /\ InitPanel

NextConn ==
    \/ Mount
    \/ \E c \in 1..MaxSources : SourceOpen(c)
    \/ \E c \in 1..MaxSources : SourceConnected(c)
    \/ \E c \in 1..MaxSources : SourceError(c)
    \/ \E tm \in timers : ReconnectFire(tm)
    \/ Teardown
    \/ ConnTick

SpecConn == InitConnSpec /\ [][NextConn]_vars

\* a dependency of the mount effect changes (maxEvents, say) while the hook
\* is mounted: the cleanup runs, then the effect body again
Rerun ==
    /\ hook = "mounted"
    /\ nextSource + 1 <= MaxSources
    /\ ConnCommit(connect(connect(cleanup(ConnCur), "dashboard", connNow, 0),
                          "convoys", connNow, 0),
                  "rerun", 0)
    /\ UNCHANGED hook

NextConnRerun ==
    \/ Mount
    \/ \E c \in 1..MaxSources : SourceOpen(c)
    \/ \E c \in 1..MaxSources : SourceConnected(c)
    \/ \E c \in 1..MaxSources : SourceError(c)
    \/ \E tm \in timers : ReconnectFire(tm)
    \/ Teardown
    \/ Rerun
    \/ ConnTick

SpecConnRerun == InitConnSpec /\ [][NextConnRerun]_vars

\* timers expire and time passes
SpecConnLive ==
    /\ SpecConn
    /\ WF_vars(\E tm \in timers : ReconnectFire(tm))
    /\ WF_vars(ConnTick)

\* ---------------------------------------------------------------------
\* runCommand: one call and its subprocess
\* ---------------------------------------------------------------------

\* the clock advances in steps of this size (ms)
RunStep == DEFAULT_TIMEOUT \div 3

\* the clock is followed up to this time (ms)
MaxRunClock == 40000

\* the data events one subprocess raises
MaxChunks == 2

\* the call's promise, subprocess and timer as a record
RunCur ==
    [promise |-> runPromise, proc |-> runProc, signalled |-> runSignalled,
     timer |-> runTimer, stdout |-> runStdout, stderr |-> runStderr,
     settledAt |-> runSettledAt]

\* resolve(value) / reject(value) of the promise at time t: a promise that
\* is settled stays as it is
settle(R, state, value, t) ==
    IF R.promise.state # "pending" THEN R
    ELSE [R EXCEPT !.promise = [state |-> state, value |-> value],
                   !.settledAt = t]

\* the setTimeout callback
ontimeout(R, t) ==
    settle([R EXCEPT !.timer = FALSE,
                     !.signalled = (R.proc = "running")],
           "rejected", [error |-> "Command timed out"], t)

\* proc.stdout.on("data") / proc.stderr.on("data")
ondata(R, stream, data) ==
    IF stream = "stdout" THEN [R EXCEPT !.stdout = Append(R.stdout, data)]
    ELSE [R EXCEPT !.stderr = Append(R.stderr, data)]

\* the code argument of a close event: a number, or null when a signal
\* ended the subprocess
Code(n) == [code |-> n]

\* code ?? 1
ExitCode(code) == IF code = Null THEN 1 ELSE code.code

\* proc.on("close")
onclose(R, code, t) ==
    settle([R EXCEPT !.timer = FALSE, !.proc = "closed"],
           "resolved",
           [stdout |-> R.stdout, stderr |-> R.stderr,
            exitCode |-> ExitCode(code)],
           t)

\* proc.on("error")
onprocerror(R, err, t) ==
    settle([R EXCEPT !.timer = FALSE,
                     !.proc = IF R.proc = "spawning" THEN "failed"
                              ELSE R.proc],
           "rejected", [error |-> err], t)

otherThanRun ==
    << telemetryVars, logVars, feedVars, connVars, cacheVars, panelVars >>

RunCommit(R, op) ==
    /\ runPromise' = R.promise
    /\ runProc' = R.proc
    /\ runSignalled' = R.signalled
    /\ runTimer' = R.timer
    /\ runStdout' = R.stdout
    /\ runStderr' = R.stderr
    /\ runSettledAt' = R.settledAt
    /\ runLast' = op
    /\ UNCHANGED << runTimeout, runTraps, runNow >>
    /\ UNCHANGED otherThanRun

\* the subprocess writes to one of its streams
RunData(stream) ==
    /\ runProc = "running"
    /\ Len(runStdout) + Len(runStderr) < MaxChunks
    /\ RunCommit(ondata(RunCur, stream, "x"), "data")

\* the subprocess exits with a code and its streams close
RunExit(code) ==
    /\ runProc = "running"
    /\ RunCommit(onclose(RunCur, Code(code), runNow), "close")

\* the subprocess is ended by the signal it was sent
RunKilled ==
    /\ runProc = "running"
    /\ runSignalled
    /\ ~runTraps
    /\ RunCommit(onclose(RunCur, Null, runNow), "killed")

\* the command could not be spawned: the error event
RunSpawnError ==
    /\ runProc = "spawning"
    /\ RunCommit(onprocerror(RunCur, "spawn ENOENT", runNow), "error")

\* the close event that follows the error event of a failed spawn
RunFailedClose ==
    /\ runProc = "failed"
    /\ RunCommit(onclose(RunCur, Code(-2), runNow), "close")

\* the timeout expires
RunTimeout ==
    /\ runTimer
    /\ runNow >= runTimeout
    /\ RunCommit(ontimeout(RunCur, runNow), "timeout")

\* time passes, no further than the timer
RunTick ==
    /\ runNow + RunStep <= MaxRunClock
    /\ runTimer => runNow + RunStep <= runTimeout
    /\ runNow' = runNow + RunStep
    /\ UNCHANGED << runPromise, runProc, runSignalled, runTimer, runStdout,
                    runStderr, runSettledAt, runLast, runTimeout, runTraps >>
    /\ UNCHANGED otherThanRun

InitRunSpec ==
    /\ InitServer
    /\ InitFeed
    /\ InitConn
    /\ InitRunWith({DEFAULT_TIMEOUT, RunStep}, {"running", "spawning"},
                   BOOLEAN)
    /\ InitCache
    /\ InitPanel

NextRun ==
    \/ \E stream \in {"stdout", "stderr"} : RunData(stream)
    \/ \E code \in {0, 1} : RunExit(code)
    \/ RunKilled
    \/ RunSpawnError
    \/ RunFailedClose
    \/ RunTimeout
    \/ RunTick

SpecRun == InitRunSpec /\ [][NextRun]_vars

\* timers expire, time passes, and a subprocess that does not handle the
\* signal it was sent ends
SpecRunLive ==
    /\ SpecRun
    /\ WF_vars(RunTimeout)
    /\ WF_vars(RunTick)
    /\ WF_vars(RunKilled)

\* ---------------------------------------------------------------------
\* getTownStatus and its cache
\* ---------------------------------------------------------------------

\* the clock advances in steps of this size (ms)
CacheStep == CACHE_TTL \div 2

\* the clock is followed for this long (ms)
MaxCacheClock == 10000

\* the getTownStatus calls made
MaxCalls == 3

\* the module's cache and the calls waiting for the CLI, as a record
CacheCur ==
    [statusCache |-> statusCache, pending |-> cachePending,
     nextCall |-> nextCall, storedAt |-> cacheStoredAt]

\* getTownStatus(townRoot) up to its return or its await, at time t
getTownStatus(K, townRoot, t) ==
    IF K.statusCache # Null /\ t - K.statusCache.timestamp < CACHE_TTL
    THEN [K EXCEPT !.nextCall = K.nextCall + 1]
    ELSE [K EXCEPT !.pending = MapPut(K.pending, K.nextCall,
                                      [now |-> t, townRoot |-> townRoot]),
                   !.nextCall = K.nextCall + 1]

\* getTownStatus() after its await: runGtJson gave status at time t
getTownStatusResumed(K, id, status, t) ==
    [K EXCEPT !.statusCache = [data |-> status,
                               timestamp |-> K.pending[id].now],
              !.storedAt = t,
              !.pending = MapDelete(K.pending, id)]

\* getTownStatus() after its await: runGtJson threw
getTownStatusThrown(K, id) ==
    [K EXCEPT !.pending = MapDelete(K.pending, id)]

invalidateStatusCache(K) == [K EXCEPT !.statusCache = Null]

otherThanCache ==
    << telemetryVars, logVars, feedVars, connVars, runVars, panelVars >>

CacheCommit(K, op, invoked, returned) ==
    /\ statusCache' = K.statusCache
    /\ cachePending' = K.pending
    /\ nextCall' = K.nextCall
    /\ cacheStoredAt' = K.storedAt
    /\ cacheLast' = [op |-> op, invoked |-> invoked, returned |-> returned]
    /\ UNCHANGED cacheNow
    /\ UNCHANGED otherThanCache

\* the town roots the callers pass: the streamer passes the townRoot of
\* the subscriber that attached last
TownRoots == {"/town/a", "/town/b"}

\* a caller calls getTownStatus(townRoot)
CacheCall(townRoot) ==
    /\ nextCall <= MaxCalls
    /\ LET K == getTownStatus(CacheCur, townRoot, cacheNow)
           invoked == nextCall \in DOMAIN K.pending
       IN  /\ CacheCommit(K, "call", invoked,
                          IF invoked THEN Null ELSE statusCache.data)
           /\ cacheInvalidated' = FALSE

\* the CLI invocation of call id, run with cwd townRoot, ends and gives the
\* status of that town
CacheSettleOk(id) ==
    /\ id \in DOMAIN cachePending
    /\ LET status == [version |-> cacheNow,
                      cwd |-> cachePending[id].townRoot]
       IN  CacheCommit(getTownStatusResumed(CacheCur, id, status, cacheNow),
                       "resolved", FALSE, status)
    /\ UNCHANGED cacheInvalidated

\* the CLI invocation of call id fails: a timeout, an exit code other than
\* 0, or output that is not JSON
CacheSettleFail(id) ==
    /\ id \in DOMAIN cachePending
    /\ CacheCommit(getTownStatusThrown(CacheCur, id), "rejected", FALSE,
                   Null)
    /\ UNCHANGED cacheInvalidated

\* a caller calls invalidateStatusCache()
CacheInvalidate ==
    /\ CacheCommit(invalidateStatusCache(CacheCur), "invalidate", FALSE,
                   Null)
    /\ cacheInvalidated' = TRUE

\* time passes
CacheTick ==
    /\ cacheNow + CacheStep <= ClockStart + MaxCacheClock
    /\ cacheNow' = cacheNow + CacheStep
    /\ UNCHANGED << statusCache, cachePending, nextCall, cacheStoredAt,
                    cacheLast, cacheInvalidated >>
    /\ UNCHANGED otherThanCache

NextCache ==
    \/ \E townRoot \in TownRoots : CacheCall(townRoot)
    \/ \E id \in 1..MaxCalls : CacheSettleOk(id)
    \/ \E id \in 1..MaxCalls : CacheSettleFail(id)
    \/ CacheInvalidate
    \/ CacheTick

SpecCache == Init /\ [][NextCache]_vars

\* ---------------------------------------------------------------------
\* AlarmPanel: the alerts derived from the agents and rigs shown
\* ---------------------------------------------------------------------

\* the longest agents and rigs arrays rendered
MaxPanelAgents == 3

MaxPanelRigs == 1

\* the unread_mail count above which an agent gets a warning
MAIL_LIMIT == 5

PanelAlert(level, message) == [level |-> level, message |-> message]

\* the template strings of the three messages, as their parts
ErrorMessage(a) == [name |-> a.name, text |-> "Agent in error state"]

MailMessage(a) ==
    [name |-> a.name, unread_mail |-> a.unread_mail,
     text |-> "unread messages"]

RigMessage(r) ==
    [name |-> r.name, text |-> "Workers allocated but none running"]

\* the body of agents.forEach for one agent
AgentAlertsInclusive(a) ==
    (IF a.state = "error"
     THEN << PanelAlert("error", ErrorMessage(a)) >> ELSE << >>)
    \o (IF a.unread_mail >= MAIL_LIMIT
        THEN << PanelAlert("warning", MailMessage(a)) >> ELSE << >>)

AgentAlerts(a) ==
    (IF a.state = "error"
     THEN << PanelAlert("error", ErrorMessage(a)) >> ELSE << >>)
    \o (IF a.unread_mail > MAIL_LIMIT
        THEN << PanelAlert("warning", MailMessage(a)) >> ELSE << >>)

\* the body of rigs.forEach for one rig
RigAlerts(r) ==
    LET rigAgents == IF r.agents = Null THEN << >> ELSE r.agents.array
        runningAgents == Len(SelectSeq(rigAgents, LAMBDA a : a.running))
        totalAgents == Len(rigAgents)
    IN  IF /\ (r.polecat_count > 0 \/ r.crew_count > 0)
           /\ runningAgents = 0
           /\ totalAgents > 0
        THEN << PanelAlert("warning", RigMessage(r)) >>
        ELSE << >>

RECURSIVE AgentAlertsFrom(_, _)
AgentAlertsFrom(agents, i) ==
    IF i > Len(agents) THEN << >>
    ELSE AgentAlerts(agents[i]) \o AgentAlertsFrom(agents, i + 1)

RECURSIVE RigAlertsFrom(_, _)
RigAlertsFrom(rigs, i) ==
    IF i > Len(rigs) THEN << >>
    ELSE RigAlerts(rigs[i]) \o RigAlertsFrom(rigs, i + 1)

\* the number of alert rows the panel lists
ROWS_SHOWN == 5

AlarmPanelCountsRows(agents, rigs) ==
    LET alerts == AgentAlertsFrom(agents, 1) \o RigAlertsFrom(rigs, 1)
        rows == Slice(alerts, ROWS_SHOWN)
    IN  [alerts |-> alerts,
         rows |-> rows,
         errorCount |->
            Len(SelectSeq(rows, LAMBDA a : a.level = "error")),
         warningCount |->
            Len(SelectSeq(rows, LAMBDA a : a.level = "warning")),
         allOk |-> Len(alerts) = 0]

\* AlarmPanel({ agents, rigs }): the alerts array, the rows listed, the
\* two counts and whether the ALL OK badge is rendered
AlarmPanel(agents, rigs) ==
    LET alerts == AgentAlertsFrom(agents, 1) \o RigAlertsFrom(rigs, 1)
    IN  [alerts |-> alerts,
         rows |-> Slice(alerts, ROWS_SHOWN),
         errorCount |->
            Len(SelectSeq(alerts, LAMBDA a : a.level = "error")),
         warningCount |->
            Len(SelectSeq(alerts, LAMBDA a : a.level = "warning")),
         allOk |-> Len(alerts) = 0]

PanelAgentValues ==
    { [name |-> "mayor", state |-> s, unread_mail |-> u] :
        s \in {"error", "idle"},
        u \in {0, MAIL_LIMIT, MAIL_LIMIT + 1} }

\* r.agents: undefined (Null) or an array
Array(seq) == [array |-> seq]

PanelRigAgents ==
    { Null, Array(<< >>), Array(<< [running |-> FALSE] >>),
      Array(<< [running |-> TRUE] >>),
      Array(<< [running |-> FALSE], [running |-> TRUE] >>) }

PanelRigValues ==
    { [name |-> "rig1", polecat_count |-> p, crew_count |-> c,
       agents |-> as] :
        p \in {0, 1}, c \in {0, 1}, as \in PanelRigAgents }

SeqsUpTo(S, n) == UNION { [1..k -> S] : k \in 0..n }

otherThanPanel ==
    << telemetryVars, logVars, feedVars, connVars, runVars, cacheVars >>

\* React renders the panel with its props
PanelRender ==
    /\ panelOut = Null
    /\ panelOut' = AlarmPanel(panelAgents, panelRigs)
    /\ UNCHANGED << panelAgents, panelRigs >>
    /\ UNCHANGED otherThanPanel

InitPanelSpec ==
    /\ InitServer
    /\ InitFeed
    /\ InitConn
    /\ InitRun
    /\ InitCache
    /\ InitPanelWith(SeqsUpTo(PanelAgentValues, MaxPanelAgents),
                     SeqsUpTo(PanelRigValues, MaxPanelRigs))

NextPanel == PanelRender

SpecPanel == InitPanelSpec /\ [][NextPanel]_vars

\* ------------------------------------------------------------------------
\* Properties
\* ------------------------------------------------------------------------
\* the messages passed to broadcast by the last handler, in call order
Broadcasts == [k \in 1..Len(calls) |-> calls[k].msg]

OfType(msgs, type) == SelectSeq(msgs, LAMBDA m : m.type = type)

\* the ids whose send function was called by broadcast call number k
Recipients(k) == {out[i].to : i \in {j \in 1..Len(out) : out[j].call = k}}

\* C1: the poll timer is set iff at least one subscriber is registered, and
\* exactly one interval timer is live when it is set, none when it is not
C1_TimerIffSubscribers ==
    /\ pollInterval <=> Len(clients) > 0
    /\ activeTimers = IF pollInterval THEN 1 ELSE 0

\* the last subscriber has just detached from a poller that was polling:
\* the timer is cancelled
C1_Witness ==
    /\ last.op = "removeClient"
    /\ clients = << >>
    /\ nextTick > 1
    /\ ~pollInterval

\* C3: with zero subscribers the previous status is null and the cooldown
\* map is empty
C3_IdleIsClean ==
    Len(clients) = 0 => previousStatus = Null /\ alertState = EmptyMap

\* C4: at most one poll is in flight
C4_OnePollInFlight == Cardinality(inflight) <= 1

\* the alerts one evaluation of a snapshot emits, given the cooldown map m
\* and the time t: in rule order, one per rule whose condition holds and
\* that was not emitted within the cooldown
RECURSIVE ExpectedAlertsFrom(_, _, _, _)
ExpectedAlertsFrom(i, snapshot, m, t) ==
    IF i > Len(AlertRules) THEN << >>
    ELSE LET r == AlertRules[i]
             lastEmit == IF r.code \in DOMAIN m THEN m[r.code] ELSE 0
         IN (IF AlertCondition(r.code, snapshot) /\ t - lastEmit > ALERT_COOLDOWN
             THEN << Alert(r.severity, r.category, r.code) >> ELSE << >>)
            \o ExpectedAlertsFrom(i + 1, snapshot, m, t)

\* the last handler was the settling of an initial poll whose primary fetch
\* succeeded
FirstTickSettled ==
    /\ last.op = "poll"
    /\ last.arg \in firstTicks
    /\ last.res.primary # Fail

SentTo(id) == SelectSeq(out, LAMBDA o : o.to = id)

\* C5: in a tick whose fetch succeeded every subscriber is sent the tick's
\* snapshot first, then only events and alerts, all of that same tick
C5_SnapshotFirst ==
    (last.op = "poll" /\ last.res.primary # Fail)
        => \A id \in Range(clients) :
              LET mine == SentTo(id)
              IN /\ Len(mine) = Len(calls)
                 /\ mine[1].msg.type = "snapshot"
                 /\ mine[1].msg.tick = last.arg
                 /\ \A i \in 1..Len(mine) : mine[i].tick = last.arg
                 /\ \A i \in 2..Len(mine) : mine[i].msg.type \in {"event", "alert"}

\* a tick that sent two subscribers a snapshot, a change event and an alert
C5_Witness ==
    /\ last.op = "poll"
    /\ Len(clients) = 2
    /\ OfType(Broadcasts, "event") # << >>
    /\ OfType(Broadcasts, "alert") # << >>

\* C6: what a subscriber is sent never goes back to an earlier poll
C6_TickOrder ==
    [][\A id \in Clients :
          (seen[id] # 0 /\ seen'[id] # 0) => seen'[id] >= seen[id]]_vars

\* C7: a broadcast calls the send function of every registered subscriber
\* whichever of them throw, and no exception leaves the tick
C7_BroadcastIsolatesFailures ==
    last.op = "poll"
        => /\ ~last.threw
           /\ \A k \in 1..Len(calls) : calls[k].registered \subseteq Recipients(k)

\* C8: a tick whose primary fetch fails broadcasts one system event and
\* nothing else, does not throw, and changes neither the previous status,
\* the last snapshot, the cooldown map nor the timer
C8_PrimaryFailure ==
    [][(last'.op = "poll" /\ last'.res.primary = Fail)
         => /\ Len(Broadcasts') = 1
            /\ Broadcasts'[1].type = "event"
            /\ Broadcasts'[1].category = "system"
            /\ ~last'.threw
            /\ UNCHANGED << previousStatus, lastSnapshot, alertState,
                            pollInterval, activeTimers, due >>]_vars

\* a failed tick of a running poller that holds a previous status, a
\* snapshot and a cooldown entry
C8_Witness ==
    /\ last.op = "poll"
    /\ last.res.primary = Fail
    /\ Len(clients) > 0
    /\ pollInterval
    /\ previousStatus # Null
    /\ lastSnapshot # Null
    /\ alertState # EmptyMap

\* C9: a tick whose ready or blocked fetch fails, the primary one
\* succeeding, broadcasts its snapshot with 0 for the failed count and the
\* fetched length for the other, and runs the diff, the alert check and the
\* update of the previous status
C9_SubFetchFailure ==
    [][(/\ last'.op = "poll"
        /\ last'.res.primary # Fail
        /\ (last'.res.ready = Fail \/ last'.res.blocked = Fail))
         => LET res == last'.res
                status == res.primary.status
                snap == Broadcasts'[1]
            IN /\ snap.type = "snapshot"
               /\ snap.work.ready
                    = (IF res.ready = Fail THEN 0 ELSE res.ready.length)
               /\ snap.work.blocked
                    = (IF res.blocked = Fail THEN 0 ELSE res.blocked.length)
               /\ lastSnapshot' = snap
               /\ OfType(Broadcasts', "event")
                    = (IF status # Null /\ previousStatus # Null
                       THEN detectChanges(previousStatus, status) ELSE << >>)
               /\ OfType(Broadcasts', "alert")
                    = ExpectedAlertsFrom(1, snap, alertState, now)
               /\ previousStatus' = status
               /\ ~last'.threw]_vars

\* a tick whose ready fetch alone failed and that emitted a change event and
\* an alert
C9_Witness ==
    /\ last.op = "poll"
    /\ last.res.primary # Fail
    /\ last.res.ready = Fail
    /\ last.res.blocked # Fail
    /\ Len(clients) > 0
    /\ OfType(Broadcasts, "event") # << >>
    /\ OfType(Broadcasts, "alert") # << >>

\* C10: the subscribers a broadcast call sends to are those registered when
\* the call started, and no send fails
C10_BroadcastUsesStartSet ==
    /\ ~last.threw
    /\ \A k \in 1..Len(calls) : Recipients(k) = calls[k].registered

\* C11: a subscriber attached while the timer runs is sent, inside
\* addClient, the last snapshot if there is one and nothing else; in every
\* later tick each registered subscriber is sent every message the tick
\* broadcasts, in order, so that what a subscriber is sent of events and
\* alerts is broadcast after it attached
C11_JoinMidPolling ==
    [][/\ (last'.op = "addClient" /\ pollInterval)
          => out' = IF lastSnapshot = Null THEN << >>
                    ELSE << [to |-> last'.arg, tick |-> lastSnapshot.tick,
                             call |-> 0, msg |-> lastSnapshot] >>
       /\ last'.op \in {"poll", "timer", "removeClient"}
          => \A id \in Range(clients') :
                [i \in 1..Len(SentTo(id)') |-> SentTo(id)'[i].msg] = Broadcasts'
      ]_vars

\* a second subscriber has just attached to a running poller and was sent
\* the last snapshot, after a tick that broadcast an event or an alert
C11_Witness ==
    /\ last.op = "addClient"
    /\ Len(clients) = 2
    /\ pollInterval
    /\ Len(out) = 1
    /\ out[1].msg.type = "snapshot"
    /\ out[1].to = last.arg
    /\ (alertState # EmptyMap \/ previousStatus # Null)

\* the subprocesses that run and were not killed
Tailing == {p \in DOMAIN procs : procs[p] = "running"}

\* C12: starting a log tailer that is running spawns nothing: at most one
\* "gt logs" subprocess runs that was not killed
C12_OneTailer == Cardinality(Tailing) <= 1

\* the time of the last broadcast recorded in a list of times
LastTime(times) == times[Len(times)]

\* C13: in a tick of a running poller, a code whose condition has held on
\* every tick since it was last emitted, and holds now, is emitted iff more
\* than 60000 ms have passed since then, whatever the other codes do; every
\* emission records the current time as the code's last emit time
C13_Cooldown ==
    [][(last'.op = "poll" /\ last'.res.primary # Fail)
         => /\ \A c \in AlertCodes \cap streak :
                  AlertCondition(c, Broadcasts'[1])
                    => (c \in EmittedCodes(calls')
                          <=> now - LastTime(emits[c]) > ALERT_COOLDOWN)
            /\ \A c \in EmittedCodes(calls') :
                  c \in DOMAIN alertState' /\ alertState'[c] = now]_vars

\* agents_stuck is emitted a second time, more than 60 s after the first,
\* in a tick that holds mq_backlog back, emitted less than 60 s before
C13_Witness ==
    /\ last.op = "poll"
    /\ "agents_stuck" \in EmittedCodes(calls)
    /\ Len(emits["agents_stuck"]) = 2
    /\ "mq_backlog" \in streak
    /\ "mq_backlog" \notin EmittedCodes(calls)
    /\ AlertCondition("mq_backlog", lastSnapshot)
    /\ now - LastTime(emits["mq_backlog"]) < ALERT_COOLDOWN

\* C14: a code whose condition did not hold in the last evaluated snapshot
\* and holds in this tick's is emitted in this tick, whenever it was emitted
\* before; and a tick leaves no cooldown entry for a code whose condition
\* does not hold
C14_RefireAfterClear ==
    [][(last'.op = "poll" /\ last'.res.primary # Fail /\ lastSnapshot # Null)
         => \A c \in AlertCodes :
              /\ (~AlertCondition(c, lastSnapshot)
                    /\ AlertCondition(c, lastSnapshot'))
                   => c \in EmittedCodes(calls')
              /\ ~AlertCondition(c, lastSnapshot')
                   => c \notin DOMAIN alertState']_vars

\* agents_stuck is emitted a second time less than 60 s after the first,
\* its condition having cleared in between
C14_Witness ==
    /\ last.op = "poll"
    /\ "agents_stuck" \in EmittedCodes(calls)
    /\ Len(emits["agents_stuck"]) = 2
    /\ emits["agents_stuck"][2] - emits["agents_stuck"][1] < ALERT_COOLDOWN

\* C16: while the system stays unreachable (the source reports
\* uninitialized, or the primary fetch fails, on every tick) a message that
\* reports the outage is sent only if more than 60 s have passed since the
\* last one
C16_OutageOncePerWindow ==
    [][(last'.op = "poll" /\ Unreachable(last'.res) /\ "outage" \in streak)
         => ("outage" \in SentNow(calls')
               => now - LastTime(emits["outage"]) > ALERT_COOLDOWN)]_vars

\* the rule table: whether the condition of a code holds for what the
\* fetches of a tick returned
RuleHolds(code, res) ==
    LET status == res.primary.status
        agents == IF status = Null THEN << >> ELSE status.agents
        rigs == IF status = Null THEN << >> ELSE status.rigs
        pending == SumFrom([i \in 1..Len(rigs) |->
                              IF rigs[i].mq = Null THEN 0
                              ELSE rigs[i].mq.pending], 1)
        ready == IF res.ready = Fail THEN 0 ELSE res.ready.length
    IN CASE code = "system_offline" -> ~res.primary.initialized
         [] code = "agents_stuck" ->
                \E i \in 1..Len(agents) : agents[i].state = "stuck"
         [] code = "mq_backlog" -> pending > 50
         [] code = "rigs_degraded" ->
                \E i \in 1..Len(rigs) :
                   /\ rigs[i].mq # Null
                   /\ (rigs[i].mq.health = "stale"
                         \/ rigs[i].mq.state = "blocked")
         [] code = "work_backlog" -> ready > 100
         [] code = "no_agents" ->
                (\A i \in 1..Len(agents) : ~agents[i].running) /\ ready > 0

RuleSeverity(code) ==
    IF code \in {"system_offline", "no_agents"} THEN "critical" ELSE "warning"

\* C15: a tick emits, for every code that has no cooldown entry, one alert
\* of the code's severity if the code's condition holds for what was
\* fetched and none if it does not; with no entry at all the alerts of the
\* tick are exactly those of the codes whose condition holds
C15_RuleTable ==
    [][(last'.op = "poll" /\ last'.res.primary # Fail)
         => LET alerts == OfType(Broadcasts', "alert")
            IN \A c \in AlertCodes \ DOMAIN alertState :
                  LET mine == SelectSeq(alerts, LAMBDA a : a.code = c)
                  IN IF RuleHolds(c, last'.res)
                     THEN /\ Len(mine) = 1
                          /\ mine[1].severity = RuleSeverity(c)
                     ELSE mine = << >>]_vars

\* an evaluation with no cooldown entry of 51 pending messages and 100
\* ready items, no agent running: mq_backlog and no_agents and nothing else
C15_Witness ==
    /\ last.op = "poll"
    /\ last.res.primary # Fail
    /\ lastSnapshot.system.message_queue.pending = MQ_BACKLOG_LIMIT + 1
    /\ lastSnapshot.work.ready = WORK_BACKLOG_LIMIT
    /\ EmittedCodes(calls) = {"mq_backlog", "no_agents"}
    /\ Len(calls) = 3

\* the step is a tick that runs the differ: its fetch returns a status and
\* a previous status is held
DiffTick ==
    /\ last'.op = "poll"
    /\ last'.res.primary # Fail
    /\ last'.res.primary.status # Null
    /\ previousStatus # Null

\* the change events of the last handler, and those that name an agent
ChangeEvents == OfType(Broadcasts, "event")

EventsOfAgent(events, name) ==
    SelectSeq(events,
              LAMBDA e : "agent" \in DOMAIN e.data /\ e.data.agent = name)

RigEvents == SelectSeq(ChangeEvents, LAMBDA e : e.category = "rig")

Names(seq) == {seq[i].name : i \in 1..Len(seq)}

Kind(e) == << e.category, e.event_type >>

\* C17: an agent present by name in both statuses gets the one event of
\* the first comparison that matches, in the order running flag (agent
\* started/stopped), has_work false->true (work started, with the work id
\* and title), has_work true->false (work completed), state changed to a
\* non-empty value (state_changed), and no event when none matches
C17_AgentPriority ==
    [][DiffTick
         => LET prev == previousStatus
                curr == last'.res.primary.status
            IN \A i \in 1..Len(curr.agents) :
                 \A j \in 1..Len(prev.agents) :
                   prev.agents[j].name = curr.agents[i].name
                     => LET a == curr.agents[i]
                            b == prev.agents[j]
                            mine == EventsOfAgent(ChangeEvents', a.name)
                        IN IF b.running # a.running
                           THEN /\ Len(mine) = 1
                                /\ Kind(mine[1])
                                     = << "agent", IF a.running THEN "started"
                                                   ELSE "stopped" >>
                           ELSE IF ~b.has_work /\ a.has_work
                           THEN /\ Len(mine) = 1
                                /\ Kind(mine[1]) = << "work", "started" >>
                                /\ mine[1].data.bead_id = a.hook_bead
                                /\ mine[1].data.title = a.work_title
                           ELSE IF b.has_work /\ ~a.has_work
                           THEN /\ Len(mine) = 1
                                /\ Kind(mine[1]) = << "work", "completed" >>
                           ELSE IF b.state # a.state /\ a.state # ""
                           THEN /\ Len(mine) = 1
                                /\ Kind(mine[1]) = << "agent", "state_changed" >>
                           ELSE mine = << >>]_vars

\* a tick in which agent a1 stopped, got work and changed state at once,
\* and that emitted the stopped event alone
C17_Witness ==
    /\ last.op = "poll"
    /\ diffPrev # Null
    /\ diffPrev.agents = << DiffAgent("a1", TRUE, FALSE, "idle") >>
    /\ previousStatus.agents = << DiffAgent("a1", FALSE, TRUE, "working") >>
    /\ Len(ChangeEvents) = 1
    /\ Kind(ChangeEvents[1]) = << "agent", "stopped" >>
    /\ ChangeEvents[1].data.agent = "a1"

\* C18: a status equal to the previous one yields no change event, and a
\* status that differs from the previous one in the running flag of one
\* agent only yields one event, agent started or agent stopped for that
\* agent
C18_OnlyDeltas ==
    [][DiffTick
         => LET prev == previousStatus
                curr == last'.res.primary.status
            IN /\ curr = prev => ChangeEvents' = << >>
               /\ \A i \in 1..Len(curr.agents) :
                     prev = [curr EXCEPT !.agents[i].running = ~@]
                       => /\ Len(ChangeEvents') = 1
                          /\ Kind(ChangeEvents'[1])
                               = << "agent", IF curr.agents[i].running
                                             THEN "started" ELSE "stopped" >>
                          /\ ChangeEvents'[1].data.agent
                               = curr.agents[i].name]_vars

\* a tick over two agents in which only a1's running flag went from false
\* to true, and that emitted one event: a1 started
C18_Witness ==
    /\ last.op = "poll"
    /\ diffPrev # Null
    /\ previousStatus.agents
         = << DiffAgent("a1", TRUE, TRUE, "working"),
              DiffAgent("a2", TRUE, FALSE, "idle") >>
    /\ diffPrev = [previousStatus EXCEPT !.agents[1].running = FALSE]
    /\ Len(ChangeEvents) = 1
    /\ Kind(ChangeEvents[1]) = << "agent", "started" >>
    /\ ChangeEvents[1].data.agent = "a1"

\* the names the events of one kind carry, one event per name
NamedOnce(events, names) ==
    /\ {events[i].data.agent : i \in 1..Len(events)} = names
    /\ Len(events) = Cardinality(names)

\* C19: the agent joined events are one for each name in the current
\* status that is not in the previous one; the agent left events are one
\* for each name in the previous status that is not in the current one
C19_JoinedLeft ==
    [][DiffTick
         => LET prev == previousStatus
                curr == last'.res.primary.status
                joined == SelectSeq(ChangeEvents',
                                    LAMBDA e : Kind(e) = << "agent", "joined" >>)
                left == SelectSeq(ChangeEvents',
                                  LAMBDA e : Kind(e) = << "agent", "left" >>)
            IN /\ NamedOnce(joined, Names(curr.agents) \ Names(prev.agents))
               /\ NamedOnce(left, Names(prev.agents) \ Names(curr.agents))]_vars

\* a tick in which a1 was replaced by a2: one left and one joined event
C19_Witness ==
    /\ last.op = "poll"
    /\ diffPrev # Null
    /\ Names(diffPrev.agents) = {"a1"}
    /\ Names(previousStatus.agents) = {"a2"}
    /\ Len(ChangeEvents) = 2
    /\ {<< Kind(ChangeEvents[i]), ChangeEvents[i].data.agent >> : i \in 1..2}
         = {<< << "agent", "joined" >>, "a2" >>,
            << << "agent", "left" >>, "a1" >>}

QueueBlocked(rig) == rig.mq # Null /\ rig.mq.state = "blocked"

\* the rig events the rule of the claim gives for the rigs of curr from
\* position i on
RECURSIVE ExpectedRigEvents(_, _, _)
ExpectedRigEvents(prev, curr, i) ==
    IF i > Len(curr.rigs) THEN << >>
    ELSE LET rig == curr.rigs[i]
             before == {prev.rigs[j] : j \in {k \in 1..Len(prev.rigs) :
                                                 prev.rigs[k].name = rig.name}}
         IN (IF before = {} THEN << << "added", rig.name >> >>
             ELSE IF QueueBlocked(rig) /\ \A b \in before : ~QueueBlocked(b)
             THEN << << "blocked", rig.name >> >>
             ELSE << >>)
            \o ExpectedRigEvents(prev, curr, i + 1)

\* C20: the rig events of a tick are rig added for each rig name new in
\* the current status and rig blocked for each rig in both whose queue is
\* blocked now and was not before, and no other
C20_RigEvents ==
    [][DiffTick
         => [i \in 1..Len(RigEvents') |->
               << RigEvents'[i].event_type, RigEvents'[i].data.rig >>]
            = ExpectedRigEvents(previousStatus, last'.res.primary.status, 1)
       ]_vars

\* a tick in which the queue of r1 went from idle to blocked with other
\* counts and health, and r2 disappeared: one event, r1 blocked
C20_Witness ==
    /\ last.op = "poll"
    /\ diffPrev # Null
    /\ diffPrev.rigs = << Rig("r1", Mq(0, 0, "idle", "healthy")),
                          Rig("r2", Mq(0, 0, "idle", "healthy")) >>
    /\ previousStatus.rigs = << Rig("r1", Mq(5, 1, "blocked", "stale")) >>
    /\ Len(ChangeEvents) = 1
    /\ Kind(ChangeEvents[1]) = << "rig", "blocked" >>

\* C21: a log-tail subprocess runs (spawned and not killed) iff at least
\* one log subscriber is registered
C21_TailerIffSubscribers == (Tailing # {}) <=> (Len(logClients) > 0)

\* the entries of list that have the type and title of event and a
\* timestamp less than 1000 ms from its timestamp
NearTwins(list, event) ==
    {i \in 1..Len(list) :
        /\ list[i].type = event.type
        /\ list[i].title = event.title
        /\ Abs(getTime(list[i].timestamp) - getTime(event.timestamp)) < 1000}

\* C22: every addEvent call leaves the list as it was iff some entry has
\* the incoming event's type and title and a timestamp less than 1000 ms
\* from it; otherwise the event becomes the first entry, before the entries
\* that were there
C22_DropIffNearTwin ==
    \A k \in 1..Len(feedLast.calls) :
        LET c == feedLast.calls[k]
        IN  IF NearTwins(c.prev, c.event) # {}
            THEN c.next = c.prev
            ELSE /\ c.next # << >>
                 /\ Head(c.next) = c.event
                 /\ \A i \in 2..Len(c.next) : c.next[i] = c.prev[i - 1]

\* one listener run dropped an event 500 ms from its twin and inserted the
\* same event 1500 ms from it
C22_Witness ==
    \E k, l \in 1..Len(feedLast.calls) :
        LET c == feedLast.calls[k]
            d == feedLast.calls[l]
        IN  /\ c.next = c.prev
            /\ \E i \in NearTwins(c.prev, c.event) :
                  Abs(getTime(c.prev[i].timestamp)
                      - getTime(c.event.timestamp)) = 500
            /\ d.next # d.prev
            /\ Len(d.next) = 2
            /\ \E i \in 1..Len(d.prev) :
                  /\ d.prev[i].type = d.event.type
                  /\ d.prev[i].title = d.event.title
                  /\ Abs(getTime(d.prev[i].timestamp)
                         - getTime(d.event.timestamp)) = 1500

\* the k most recently inserted events, newest first
MostRecent(k) == [i \in 1..k |-> accepted[Len(accepted) + 1 - i]]

\* C23: the list never has more than maxEvents entries, and it holds the
\* min(n, maxEvents) most recently inserted events, n being the number of
\* events inserted
C23_CapKeepsNewest ==
    /\ Len(feedEvents) <= maxEvents
    /\ feedEvents = MostRecent(IF Len(accepted) < maxEvents
                              THEN Len(accepted) ELSE maxEvents)

\* more events were inserted than the cap allows and the oldest is gone
C23_Witness ==
    /\ Len(accepted) > maxEvents
    /\ Len(feedEvents) = maxEvents
    /\ maxEvents > 1
    /\ \A i \in 1..Len(feedEvents) : feedEvents[i] # accepted[1]

\* C24: the merged list is ordered by timestamp, newest first
C24_NewestFirst ==
    \A i, j \in 1..Len(feedEvents) :
        i < j =>
          getTime(feedEvents[i].timestamp) >= getTime(feedEvents[j].timestamp)

\* the connections created for src, those that failed, and its timers
SourcesOf(src) == {c \in DOMAIN eventSources : eventSources[c].src = src}

FailedOf(src) == {c \in SourcesOf(src) : eventSources[c].erroredAt >= 0}

TimersOf(src) == {tm \in timers : tm.src = src}

\* while mounted, every failure of a connection of src was or will be
\* answered by one connection attempt, made RECONNECT_DELAY after it
OneAttemptPerFailure(src) ==
    /\ Cardinality(TimersOf(src)) <= 1
    /\ Cardinality(SourcesOf(src))
         = 1 + Cardinality(FailedOf(src)) - Cardinality(TimersOf(src))
    /\ \A c \in SourcesOf(src) :
          eventSources[c].cause # 0 =>
            /\ eventSources[c].cause \in FailedOf(src)
            /\ eventSources[c].created
                 = eventSources[eventSources[c].cause].erroredAt
                   + RECONNECT_DELAY
            /\ \A d \in SourcesOf(src) :
                  eventSources[d].cause = eventSources[c].cause => d = c
    /\ \A tm \in TimersOf(src) :
          /\ tm.cause \in FailedOf(src)
          /\ tm.due = eventSources[tm.cause].erroredAt + RECONNECT_DELAY

\* the error handler of connection c closes it, starts one timer for its
\* source and leaves the other source alone
ErrorStep(c) ==
    LET src == eventSources[c].src
    IN  /\ eventSources'[c].readyState = "closed"
        /\ \E tm \in timers' \ timers :
              /\ timers' = timers \cup {tm}
              /\ tm.src = src
              /\ tm.due = connNow + RECONNECT_DELAY
        /\ \A o \in Sources \ {src} :
              /\ sourceRef'[o] = sourceRef[o]
              /\ \A d \in SourcesOf(o) : eventSources'[d] = eventSources[d]
              /\ reconnectTimeouts'[o] = reconnectTimeouts[o]

\* C25: while the hook is mounted and enabled, an error on a connection
\* closes it and is followed, 3000 ms later, by exactly one new connection
\* attempt for the same source, after any number of failures; the other
\* source's connection and timer are not touched
C25_Reconnect ==
    /\ [](hook = "mounted" => \A src \in Sources : OneAttemptPerFailure(src))
    /\ [][\A c \in 1..MaxSources : SourceError(c) => ErrorStep(c)]_vars
    /\ \A src \in Sources :
          (hook = "mounted" /\ sourceRef[src] = 0)
             ~> (sourceRef[src] # 0 \/ hook = "torn")

\* one source failed twice in a row and was reconnected each time while the
\* other source's first connection stayed open
C25_Witness ==
    /\ hook = "mounted"
    /\ \E src \in Sources :
          /\ Cardinality({c \in SourcesOf(src) : eventSources[c].cause # 0})
               = 2
          /\ sourceRef[src] # 0
          /\ \A o \in Sources \ {src} :
                /\ Cardinality(SourcesOf(o)) = 1
                /\ \A d \in SourcesOf(o) : eventSources[d].readyState = "open"

\* C26: once the hook is torn down no connection it created is open or
\* connecting, no reconnect timer is pending, and no connection is created
\* any more
C26_Teardown ==
    /\ [](hook = "torn" =>
            /\ \A c \in DOMAIN eventSources :
                  eventSources[c].readyState = "closed"
            /\ timers = {})
    /\ [][hook = "torn" =>
            /\ nextSource' = nextSource
            /\ \A c \in DOMAIN eventSources' :
                  eventSources'[c].readyState = "closed"]_vars

\* the hook was torn down while one source was connected and the other had
\* failed and was waiting for its reconnect timer
C26_Witness ==
    /\ hook = "torn"
    /\ connLast.op = "teardown"
    /\ connLast.arg = [timers |-> 1, open |-> 1]

\* the hook's result: connected and connectionStatus
connectionStatus ==
    [dashboard |-> connectedFlags["dashboard"],
     convoys |-> connectedFlags["convoys"]]

connected == connectedFlags["dashboard"] \/ connectedFlags["convoys"]

C28_SettlesInTime ==
    /\ [](runPromise.state = "pending" => runNow <= runTimeout)
    /\ [](runPromise.state = "resolved" =>
            /\ runSettledAt <= runTimeout
            /\ runProc = "closed"
            /\ runPromise.value.stdout = runStdout
            /\ runPromise.value.stderr = runStderr)
    /\ [](runPromise.state = "rejected" =>
            /\ runPromise.value.error = "Command timed out"
            /\ runSettledAt = runTimeout)
    /\ [][runPromise.state # "pending" => runPromise' = runPromise]_vars
    /\ (runPromise.state = "rejected") ~> (runProc # "running")

\* a cache entry exists that was stored less than CACHE_TTL ago
FreshEntry ==
    statusCache # Null /\ cacheNow - cacheStoredAt < CACHE_TTL

\* C29: getTownStatus returns the cached status without invoking the CLI
\* iff an entry stored less than 5000 ms ago exists, and invokes the CLI
\* otherwise; a successful invocation replaces the entry, a failed one
\* leaves the entry as it is and is rejected; the first call after
\* invalidateStatusCache invokes the CLI
C29_StatusCache ==
    [][/\ (\E townRoot \in TownRoots : CacheCall(townRoot)) =>
            /\ cacheLast'.invoked <=> ~FreshEntry
            /\ ~cacheLast'.invoked =>
                  cacheLast'.returned = statusCache.data
            /\ cacheInvalidated => cacheLast'.invoked
       /\ \A id \in 1..MaxCalls :
            /\ CacheSettleOk(id) =>
                  /\ statusCache' # Null
                  /\ statusCache'.data = cacheLast'.returned
            /\ CacheSettleFail(id) =>
                  /\ statusCache' = statusCache
                  /\ cacheLast'.op = "rejected"]_vars

\* how often alert a is in the alerts array
TimesIn(alerts, a) == Cardinality({i \in 1..Len(alerts) : alerts[i] = a})

\* the rig has workers, has agents and none of them is running
RigIdle(r) ==
    /\ r.polecat_count > 0 \/ r.crew_count > 0
    /\ r.agents # Null
    /\ Len(r.agents.array) > 0
    /\ \A k \in 1..Len(r.agents.array) : ~r.agents.array[k].running

\* how often alert a is due for the props
TimesDue(a) ==
    Cardinality({i \in 1..Len(panelAgents) :
                    /\ panelAgents[i].state = "error"
                    /\ a = PanelAlert("error", ErrorMessage(panelAgents[i]))})
    + Cardinality({i \in 1..Len(panelAgents) :
                    /\ panelAgents[i].unread_mail > 5
                    /\ a = PanelAlert("warning",
                                      MailMessage(panelAgents[i]))})
    + Cardinality({j \in 1..Len(panelRigs) :
                    /\ RigIdle(panelRigs[j])
                    /\ a = PanelAlert("warning", RigMessage(panelRigs[j]))})

\* every alert the props can give
PanelAlerts ==
    {PanelAlert("error", ErrorMessage(a)) : a \in PanelAgentValues}
    \cup {PanelAlert("warning", MailMessage(a)) : a \in PanelAgentValues}
    \cup {PanelAlert("warning", RigMessage(r)) : r \in PanelRigValues}

\* C30: the rendered panel has derived one error per agent in state error,
\* one warning per agent with more than 5 unread messages and one warning
\* per rig with workers and agents of which none is running, and nothing
\* else; ALL OK is shown iff there is no such agent and no such rig
C30_AlarmPanel ==
    panelOut # Null =>
      /\ \A i \in 1..Len(panelOut.alerts) : panelOut.alerts[i] \in PanelAlerts
      /\ \A a \in PanelAlerts : TimesIn(panelOut.alerts, a) = TimesDue(a)
      /\ panelOut.allOk <=>
           /\ \A i \in 1..Len(panelAgents) :
                 /\ panelAgents[i].state # "error"
                 /\ panelAgents[i].unread_mail <= 5
           /\ \A j \in 1..Len(panelRigs) : ~RigIdle(panelRigs[j])

\* rendered with an agent in error state that has exactly 5 unread
\* messages, an agent with 6, and a rig whose only agent is stopped
C30_Witness ==
    /\ panelOut # Null
    /\ \E i, k \in 1..Len(panelAgents) :
          /\ panelAgents[i].state = "error"
          /\ panelAgents[i].unread_mail = 5
          /\ panelAgents[k].state = "idle"
          /\ panelAgents[k].unread_mail = 6
    /\ \E j \in 1..Len(panelRigs) : RigIdle(panelRigs[j])
    /\ Len(panelOut.alerts) = 3
    /\ panelOut.errorCount = 1
    /\ panelOut.warningCount = 2
    /\ ~panelOut.allOk

\* C31: the rendered panel lists the first 5 derived alerts, in derivation
\* order, and no more, while the ERR and WARN badges count every derived
\* error and warning
C31_RowsAndBadges ==
    panelOut # Null =>
      /\ Len(panelOut.rows) <= 5
      /\ Len(panelOut.rows)
           = (IF Len(panelOut.alerts) < 5 THEN Len(panelOut.alerts) ELSE 5)
      /\ \A i \in 1..Len(panelOut.rows) :
            panelOut.rows[i] = panelOut.alerts[i]
      /\ panelOut.errorCount
           = Cardinality({i \in 1..Len(panelOut.alerts) :
                             panelOut.alerts[i].level = "error"})
      /\ panelOut.warningCount
           = Cardinality({i \in 1..Len(panelOut.alerts) :
                             panelOut.alerts[i].level = "warning"})

\* seven alerts were derived, the two that are not listed being warnings
C31_Witness ==
    /\ panelOut # Null
    /\ Len(panelOut.alerts) = 7
    /\ Len(panelOut.rows) = 5
    /\ panelOut.errorCount = 3
    /\ panelOut.warningCount = 4

\* C32: after every tick whose primary fetch succeeds the previous
\* reference is the status that tick returned, null when the source
\* returned no status; the change events of the tick are the diff of its
\* status against the reference it found, and there are none when that
\* reference is null
C32_PreviousIsLastStatus ==
    [][(last'.op = "poll" /\ last'.res.primary # Fail)
         => LET prev == previousStatus
                curr == last'.res.primary.status
            IN /\ previousStatus' = curr
               /\ ChangeEvents'
                    = IF prev = Null \/ curr = Null THEN << >>
                      ELSE detectChanges(prev, curr)]_vars

\* a tick that returned no status has set the reference to null
C32_Witness ==
    /\ last.op = "poll"
    /\ last.res.primary # Fail
    /\ last.res.primary.status = Null
    /\ last.hadPrevious
    /\ previousStatus = Null
    /\ Len(clients) > 0

\* C33: a code whose condition holds in a tick's snapshot and that has no
\* cooldown entry when the tick is evaluated is emitted in that tick,
\* whatever the clock reads
C33_FirstOccurrenceEmits ==
    [][(last'.op = "poll" /\ last'.res.primary # Fail)
         => \A c \in AlertCodes :
              (AlertCondition(c, lastSnapshot') /\ c \notin DOMAIN alertState)
                => c \in EmittedCodes(calls')]_vars

\* the last n entries of a list, all of it when it has fewer
LastN(list, n) ==
    SubSeq(list, IF Len(list) > n THEN Len(list) - n + 1 ELSE 1, Len(list))

\* what the handler sent to subscriber id, in order
LogSentTo(sends, id) ==
    LET sent == SelectSeq(sends, LAMBDA m : m.to = id)
    IN [i \in 1..Len(sent) |-> [event |-> sent[i].event, data |-> sent[i].data]]

\* C34: the buffer holds at most 100 entries, the most recent ones in
\* arrival order; a subscriber is sent, when it is added, every buffered
\* entry in that order and nothing else, and every entry that arrives is
\* appended to the buffer and sent once to every registered subscriber
C34_BufferAndReplay ==
    [][/\ Len(buffer') <= 100
       /\ Len(buffer') = (IF nextEntry' - 1 < 100 THEN nextEntry' - 1 ELSE 100)
       /\ \A i \in 1..Len(buffer') :
             buffer'[i].n = nextEntry' - 1 - Len(buffer') + i
       /\ logLast'.op = "addClient"
            => /\ LogSentTo(logOut', logLast'.arg)
                    = [i \in 1..Len(buffer) |->
                         [event |-> "log", data |-> buffer[i]]]
               /\ \A id \in Clients \ {logLast'.arg} : LogSentTo(logOut', id) = << >>
               /\ buffer' = buffer
       /\ logLast'.op = "data"
            => /\ nextEntry' = nextEntry + 1
               /\ buffer'[Len(buffer')].n = nextEntry
               /\ buffer' = LastN(Append(buffer, buffer'[Len(buffer')]), 100)
               /\ \A id \in Clients :
                     LogSentTo(logOut', id)
                       = IF id \in Range(logClients)
                         THEN << [event |-> "log",
                                  data |-> buffer'[Len(buffer')]] >>
                         ELSE << >>
       /\ logLast'.op \in {"removeClient", "close"} => buffer' = buffer
      ]_vars

\* a subscriber added after 101 entries arrived was sent the 100 newest,
\* entries 2 to 101, in order
C34_Witness ==
    /\ logLast.op = "addClient"
    /\ nextEntry = 102
    /\ Len(buffer) = 100
    /\ buffer[1].n = 2
    /\ Len(LogSentTo(logOut, logLast.arg)) = 100
    /\ LogSentTo(logOut, logLast.arg)[100].data.n = 101

\* C35: the subprocesses that run and were not killed are the one the
\* streamer's process reference designates, none when the reference is
\* empty
C35_ReferenceDesignatesTailer ==
    Tailing = (IF logProcess = 0 THEN {} ELSE {logProcess})

\* C36: a subscriber that attaches while the poller is idle is sent nothing
\* inside addClient: no snapshot of an earlier polling period reaches it
\* before the snapshot of the poll that its attachment starts
C36_NoStaleSnapshot ==
    [][(last'.op = "addClient" /\ ~pollInterval)
         => \A i \in 1..Len(out') : out'[i].msg.type # "snapshot"]_vars

\* C37: a per-source connected flag that is true implies that the source
\* has an open connection, also after the cleanup closed the connections
C37_FlagImpliesOpen ==
    \A src \in Sources :
        connectedFlags[src]
          => \E c \in DOMAIN eventSources :
                /\ eventSources[c].src = src
                /\ eventSources[c].readyState = "open"

\* the connections of a source that are not closed, and its pending timers
LiveOf(src) ==
    {c \in DOMAIN eventSources :
        eventSources[c].src = src /\ eventSources[c].readyState # "closed"}

\* C38: each source has at most one connection that is not closed and at
\* most one pending reconnect timer, never both; a pending timer was set by
\* the error of a connection of that source that is closed, and the
\* connection the timer's expiry opens has not been created yet
C38_OneConnectionOrTimer ==
    \A src \in Sources :
        /\ Cardinality(LiveOf(src)) + Cardinality(TimersOf(src)) <= 1
        /\ \A tm \in TimersOf(src) :
              /\ tm.cause \in DOMAIN eventSources
              /\ eventSources[tm.cause].src = src
              /\ eventSources[tm.cause].readyState = "closed"
              /\ \A c \in DOMAIN eventSources :
                    eventSources[c].cause # tm.cause

\* one source waits for its reconnect timer with no connection, while the
\* other has been replaced by a reconnect attempt that is open
C38_Witness ==
    \E a \in Sources : \E b \in Sources \ {a} :
        /\ Cardinality(TimersOf(a)) = 1
        /\ LiveOf(a) = {}
        /\ TimersOf(b) = {}
        /\ \E c \in LiveOf(b) :
              eventSources[c].cause # 0 /\ eventSources[c].readyState = "open"

\* the entries of list that have the type and title of event and a
\* timestamp less than 1000 ms from its timestamp, but another
\* description or other metadata
UnlikeTwins(list, event) ==
    {i \in NearTwins(list, event) :
        \/ list[i].description # event.description
        \/ list[i].metadata # event.metadata}

\* C39: an incoming event is dropped when an entry with its type and title
\* lies less than one second from it, also when the entry's description or
\* metadata differs from the event's; an event with no such entry is not
\* dropped, whatever descriptions the list holds
C39_DuplicateIgnoresDetails ==
    \A k \in 1..Len(feedLast.calls) :
        LET c == feedLast.calls[k]
        IN  /\ UnlikeTwins(c.prev, c.event) # {} => c.next = c.prev
            /\ NearTwins(c.prev, c.event) = {}
                 => c.next # c.prev /\ c.next[1] = c.event

\* the progress update of convoy cv-2 arrived 500 ms after the one of
\* convoy cv-1 and was dropped: the list has the single entry of cv-1
C39_Witness ==
    /\ feedLast.op = "convoy"
    /\ Len(feedLast.calls) = 1
    /\ feedLast.calls[1].event.title = "Convoy progress"
    /\ feedLast.calls[1].event.metadata.convoy_id = "cv-2"
    /\ feedLast.calls[1].next = feedLast.calls[1].prev
    /\ Len(feedEvents) = 1
    /\ feedEvents[1].title = "Convoy progress"
    /\ feedEvents[1].metadata.convoy_id = "cv-1"
    /\ getTime(feedLast.calls[1].event.timestamp)
         - getTime(feedEvents[1].timestamp) = 500

\* C40: a call of getTownStatus(townRoot) that is answered from the cache
\* returns a status that a CLI invocation for that townRoot produced
C40_SameScope ==
    [][\A townRoot \in TownRoots :
         (CacheCall(townRoot) /\ ~cacheLast'.invoked)
           => cacheLast'.returned.cwd = townRoot]_vars

====
